---- MODULE Spec2Model ----
(***************************************************************************)
(* A model of the risk-aggregation core of sol_safety_check: the rule set  *)
(* (risk/rules.py), the scorer (risk/scoring.py) and the pydantic data     *)
(* model they build (models.py).                                           *)
(*                                                                         *)
(* Python values are modelled as follows.                                  *)
(*   - a dict is a function whose DOMAIN is the set of keys present, so    *)
(*     d.get(k, default) is Get(d, k, default) and {} is the empty         *)
(*     function;                                                           *)
(*   - None is PyNone where a dict is expected, NoneNum where a number is  *)
(*     expected and NoneStr where a string is expected;                    *)
(*   - a list is a sequence;                                               *)
(*   - a float is an IEEE-754 binary64 value, held as a 53-bit mantissa    *)
(*     (in limbs, TLC's integers being 32 bits wide) and an exponent, and  *)
(*     every float operation rounds to nearest, ties to even, as CPython's *)
(*     does;                                                               *)
(*   - a call either returns a value or raises: Ret(v) or Raise(name).     *)
(***************************************************************************)
EXTENDS Integers, Sequences, FiniteSets, TLC

(***************************************************************************)
(* TLC evaluates the argument of an operator again each time the operator  *)
(* reads it, while a bound variable holds a value: Strict1 and Strict2     *)
(* apply F to the values of their arguments.                               *)
(***************************************************************************)
Strict1(F(_), a) == CHOOSE r \in {F(x) : x \in {a}} : TRUE
Strict2(F(_, _), a, b) == CHOOSE r \in {F(x, y) : x \in {a}, y \in {b}} : TRUE

Min(a, b) == IF a < b THEN a ELSE b
Max(a, b) == IF a > b THEN a ELSE b

(***************************************************************************)
(* Natural numbers of any size: sequences of limbs, least significant      *)
(* first, no zero limb at the top; <<>> is 0.                              *)
(***************************************************************************)
LimbBits == 15

RECURSIVE Pow2(_)
Pow2(n) == IF n = 0 THEN 1 ELSE 2 * Pow2(n - 1)

Base == Pow2(LimbBits)

RECURSIVE BNorm(_)
BNorm(a) ==
    IF a = <<>> THEN <<>>
    ELSE IF a[Len(a)] = 0 THEN BNorm(SubSeq(a, 1, Len(a) - 1))
    ELSE a

RECURSIVE BFromInt(_)
BFromInt(n) == IF n = 0 THEN <<>> ELSE <<n % Base>> \o BFromInt(n \div Base)

RECURSIVE BToInt(_)
BToInt(a) == IF a = <<>> THEN 0 ELSE a[1] + Base * BToInt(Tail(a))

Limb(a, i) == IF i <= Len(a) THEN a[i] ELSE 0

RECURSIVE BAddFrom(_, _, _, _)
BAddFrom(a, b, i, carry) ==
    IF i > Len(a) /\ i > Len(b)
    THEN (IF carry = 0 THEN <<>> ELSE <<carry>>)
    ELSE LET s == Limb(a, i) + Limb(b, i) + carry
         IN  <<s % Base>> \o BAddFrom(a, b, i + 1, s \div Base)

BAdd(a, b) == BAddFrom(a, b, 1, 0)

\* a - b for a >= b
RECURSIVE BSubFrom(_, _, _, _)
BSubFrom(a, b, i, borrow) ==
    IF i > Len(a) THEN <<>>
    ELSE LET d == Limb(a, i) - Limb(b, i) - borrow
         IN  IF d < 0
             THEN <<d + Base>> \o BSubFrom(a, b, i + 1, 1)
             ELSE <<d>> \o BSubFrom(a, b, i + 1, 0)

BSub(a, b) == BNorm(BSubFrom(a, b, 1, 0))

\* -1, 0 or 1 as a < b, a = b, a > b (both normalised)
RECURSIVE BCmpAt(_, _, _)
BCmpAt(a, b, i) ==
    IF i = 0 THEN 0
    ELSE IF a[i] < b[i] THEN -1
    ELSE IF a[i] > b[i] THEN 1
    ELSE BCmpAt(a, b, i - 1)

BCmp(a, b) ==
    IF Len(a) < Len(b) THEN -1
    ELSE IF Len(a) > Len(b) THEN 1
    ELSE BCmpAt(a, b, Len(a))

\* a * k for a limb-sized k (0 <= k <= Base)
RECURSIVE BMulSmallFrom(_, _, _, _)
BMulSmallFrom(a, k, i, carry) ==
    IF i > Len(a)
    THEN (IF carry = 0 THEN <<>> ELSE <<carry % Base>> \o
             (IF carry \div Base = 0 THEN <<>> ELSE <<carry \div Base>>))
    ELSE LET p == a[i] * k + carry
         IN  <<p % Base>> \o BMulSmallFrom(a, k, i + 1, p \div Base)

BMulSmall(a, k) == BNorm(BMulSmallFrom(a, k, 1, 0))

RECURSIVE Zeros(_)
Zeros(n) == IF n = 0 THEN <<>> ELSE <<0>> \o Zeros(n - 1)

\* a * 2^d
BShl(a, d) ==
    IF a = <<>> THEN <<>>
    ELSE Zeros(d \div LimbBits) \o BMulSmall(a, Pow2(d % LimbBits))

RECURSIVE BMulFrom(_, _, _)
BMulFrom(a, b, i) ==
    IF i > Len(b) THEN <<>>
    ELSE BAdd(Zeros(i - 1) \o BMulSmall(a, b[i]), BMulFrom(a, b, i + 1))

BMul(a, b) == BNorm(BMulFrom(a, b, 1))

RECURSIVE IntBitLen(_)
IntBitLen(n) == IF n = 0 THEN 0 ELSE 1 + IntBitLen(n \div 2)

BBitLen(a) == IF a = <<>> THEN 0 ELSE LimbBits * (Len(a) - 1) + IntBitLen(a[Len(a)])

\* bit i (0 is the least significant) of a
BBit(a, i) == (Limb(a, (i \div LimbBits) + 1) \div Pow2(i % LimbBits)) % 2

\* floor(a / 2^d)
RECURSIVE BShrSmallAt(_, _, _, _)
BShrSmallAt(a, d, i, acc) ==
    \* d < LimbBits; walks from the top limb down, acc is the quotient so far
    IF i = 0 THEN acc
    ELSE LET hi == IF i < Len(a) THEN a[i + 1] % Pow2(d) ELSE 0
             q  == hi * Pow2(LimbBits - d) + (a[i] \div Pow2(d))
         IN  BShrSmallAt(a, d, i - 1, <<q>> \o acc)

BShr(a, d) ==
    LET whole == d \div LimbBits
        rest  == IF whole >= Len(a) THEN <<>> ELSE SubSeq(a, whole + 1, Len(a))
    IN  IF rest = <<>> THEN <<>>
        ELSE BNorm(BShrSmallAt(rest, d % LimbBits, Len(rest), <<>>))

\* the largest q with b * q <= r, for qhat >= q
RECURSIVE BDigitFix(_, _, _)
BDigitFix(r, b, qhat) ==
    IF BCmp(BMulSmall(b, qhat), r) > 0 THEN BDigitFix(r, b, qhat - 1) ELSE qhat

\* floor(r / b) for r < b * Base and b's top limb at least Base / 2: the
\* quotient of the top limbs is at most 2 above it
BDigit(r, b) ==
    IF BCmp(r, b) < 0 THEN 0
    ELSE LET n    == Len(b)
             top  == Limb(r, n + 1) * Base + Limb(r, n)
             qhat == top \div b[n]
         IN  BDigitFix(r, b, IF qhat > Base - 1 THEN Base - 1 ELSE qhat)

\* long division, limb by limb from the top of a: <<quotient, remainder>>
RECURSIVE BDivAt(_, _, _, _, _)
BDivAt(a, b, i, q, r) ==
    IF i = 0 THEN <<BNorm(q), r>>
    ELSE LET r2 == BNorm(<<a[i]>> \o r)
             d  == BDigit(r2, b)
         IN  BDivAt(a, b, i - 1, <<d>> \o q, BSub(r2, BMulSmall(b, d)))

\* <<floor(a / b), a mod b>> for b # 0
BDivModShifted(a, b, s) ==
    Strict1(LAMBDA qr : <<qr[1], BShr(qr[2], s)>>, BDivAt(a, b, Len(a), <<>>, <<>>))

BDivModValues(a, b) ==
    LET s == LimbBits - IntBitLen(b[Len(b)])
    IN  Strict2(LAMBDA x, y : BDivModShifted(x, y, s), BShl(a, s), BShl(b, s))

BDivMod(a, b) == Strict2(BDivModValues, a, b)

(***************************************************************************)
(* IEEE-754 binary64, non-negative and in the normal range: [m, e] is the  *)
(* value m * 2^e, m of exactly MantBits bits; zero is [m |-> <<>>, e |-> 0]*)
(***************************************************************************)
MantBits == 53

FZero == [m |-> <<>>, e |-> 0]

\* the float nearest to n * 2^e (plus a positive fraction of 2^e when
\* sticky), ties to even
\* n of more than MantBits bits, k of them to drop
FRoundUp(n, sticky, k, q) ==
    LET c == BCmp(BSub(n, BShl(q, k)), BShl(<<1>>, k - 1))
    IN  \/ c > 0
        \/ c = 0 /\ sticky
        \/ c = 0 /\ ~sticky /\ BBit(q, 0) = 1

FRoundTo(n, e, sticky, k) ==
    Strict1(LAMBDA q2 : IF BBitLen(q2) > MantBits
                        THEN [m |-> BShr(q2, 1), e |-> e + k + 1]
                        ELSE [m |-> q2, e |-> e + k],
            Strict1(LAMBDA q : IF FRoundUp(n, sticky, k, q) THEN BAdd(q, <<1>>) ELSE q,
                    BShr(n, k)))

FRoundValues(n, e, sticky) ==
    LET len == BBitLen(n)
    IN  IF len = 0 THEN FZero
        ELSE IF len <= MantBits
        THEN [m |-> BShl(n, MantBits - len), e |-> e - (MantBits - len)]
        ELSE FRoundTo(n, e, sticky, len - MantBits)

FRound(n, e, sticky) ==
    Strict2(LAMBDA x, y : FRoundValues(x, y[1], y[2]), n, <<e, sticky>>)

\* float(n) for an int n >= 0
FFromInt(n) == FRound(BFromInt(n), 0, FALSE)

FMul(a, b) ==
    Strict2(LAMBDA x, y : IF x.m = <<>> \/ y.m = <<>> THEN FZero
                          ELSE FRound(BMul(x.m, y.m), x.e + y.e, FALSE),
            a, b)

\* the sum at the smaller exponent of the two, rounded
FAdd(a, b) ==
    Strict2(LAMBDA x, y :
                IF x.m = <<>> THEN y
                ELSE IF y.m = <<>> THEN x
                ELSE FRound(BAdd(BShl(x.m, x.e - Min(x.e, y.e)),
                                 BShl(y.m, y.e - Min(x.e, y.e))),
                            Min(x.e, y.e), FALSE),
            a, b)

\* a / b for b # 0
FDiv(a, b) ==
    Strict2(LAMBDA x, y :
                IF x.m = <<>> THEN FZero
                ELSE Strict1(LAMBDA qr : FRound(qr[1], x.e - y.e - (MantBits + 3),
                                                qr[2] # <<>>),
                             BDivMod(BShl(x.m, MantBits + 3), y.m)),
            a, b)

\* -1, 0 or 1 as a < b, a = b, a > b
FCmp(a, b) ==
    Strict2(LAMBDA x, y :
                IF x.m = <<>> /\ y.m = <<>> THEN 0
                ELSE IF x.m = <<>> THEN -1
                ELSE IF y.m = <<>> THEN 1
                ELSE IF x.e < y.e THEN -1
                ELSE IF x.e > y.e THEN 1
                ELSE BCmp(x.m, y.m),
            a, b)

\* int(a): the float truncated to an integer (a below 2^31)
FTrunc(a) ==
    IF a.m = <<>> THEN 0
    ELSE IF a.e >= 0 THEN BToInt(BShl(a.m, a.e))
    ELSE BToInt(BShr(a.m, 0 - a.e))

\* the float a decimal literal num/den denotes (the nearest to it)
FLiteral(num, den) == FDiv(FFromInt(num), FFromInt(den))

(***************************************************************************)
(* Python values.                                                          *)
(***************************************************************************)
PyNone == [py_none |-> TRUE]          \* None where a dict is expected
NoneNum == -1                         \* None where a number is expected
NoneStr == <<"None">>                 \* None where a str is expected
PyTrue == "True"
PyFalse == "False"
NoneBool == "None"                    \* None where a bool is expected
NoneList == <<PyNone>>                \* None where a list is expected

\* d.get(k, default)
Get(d, k, default) == IF k \in DOMAIN d THEN d[k] ELSE default

\* bool(x) for a dict or None, a number or None, a str or None
TruthyDict(d) == d # PyNone /\ DOMAIN d # {}
TruthyNum(n)  == n # NoneNum /\ n # 0
TruthyStr(t)  == t # NoneStr /\ t # <<>>
TruthyBool(b) == b = PyTrue

Ret(v)   == [raised |-> FALSE, value |-> v]
Raise(e) == [raised |-> TRUE, error |-> e]

\* a str is the sequence of its characters
UpperChars == <<"A", "B", "C", "D", "E", "F", "G", "H", "I", "J", "K", "L", "M",
                "N", "O", "P", "Q", "R", "S", "T", "U", "V", "W", "X", "Y", "Z">>
LowerChars == <<"a", "b", "c", "d", "e", "f", "g", "h", "i", "j", "k", "l", "m",
                "n", "o", "p", "q", "r", "s", "t", "u", "v", "w", "x", "y", "z">>

LowerChar(c) ==
    IF \E i \in 1..Len(UpperChars) : UpperChars[i] = c
    THEN LowerChars[CHOOSE i \in 1..Len(UpperChars) : UpperChars[i] = c]
    ELSE c

\* str.lower()
StrLower(t) == [i \in 1..Len(t) |-> LowerChar(t[i])]

\* str.replace(c, "") for a one-character c
RECURSIVE StrRemove(_, _)
StrRemove(t, c) ==
    IF t = <<>> THEN <<>>
    ELSE IF Head(t) = c THEN StrRemove(Tail(t), c)
    ELSE <<Head(t)>> \o StrRemove(Tail(t), c)

RN_Authorities   == <<"A", "u", "t", "h", "o", "r", "i", "t", "i", "e", "s">>
RN_Liquidity     == <<"L", "i", "q", "u", "i", "d", "i", "t", "y">>
RN_Tradeability  == <<"T", "r", "a", "d", "e", "a", "b", "i", "l", "i", "t", "y">>
RN_Concentration == <<"C", "o", "n", "c", "e", "n", "t", "r", "a", "t", "i", "o", "n">>
RN_AgeHype       == <<"A", "g", "e", "/", "H", "y", "p", "e">>
RN_PumpFun       == <<"P", "u", "m", "p", ".", "f", "u", "n">>
RN_Listings      == <<"L", "i", "s", "t", "i", "n", "g", "s">>
RN_RugCheck      == <<"R", "u", "g", "C", "h", "e", "c", "k">>

S_raydium  == <<"r", "a", "y", "d", "i", "u", "m">>
S_orca     == <<"o", "r", "c", "a">>
S_jupiter  == <<"j", "u", "p", "i", "t", "e", "r">>
S_meteora  == <<"m", "e", "t", "e", "o", "r", "a">>
S_Raydium  == <<"R", "a", "y", "d", "i", "u", "m">>
S_pumpswap == <<"p", "u", "m", "p", "s", "w", "a", "p">>
S_high     == <<"h", "i", "g", "h">>
S_HIGH     == <<"H", "I", "G", "H">>
S_medium   == <<"m", "e", "d", "i", "u", "m">>
S_low      == <<"l", "o", "w">>
S_not_migrated == <<"n", "o", "t", "_", "m", "i", "g", "r", "a", "t", "e", "d">>
S_completed    == <<"c", "o", "m", "p", "l", "e", "t", "e", "d">>
S_addr     == <<"S", "o", "1", "1">>

(***************************************************************************)
(* models.py: RiskNote.  The constructor validates its fields and raises   *)
(* ValidationError when the score is outside 0..100 or the severity is not *)
(* low, medium or high.                                                    *)
(***************************************************************************)
ScoreMin == 0
ScoreMax == 100
Severities == {"low", "medium", "high"}

RiskNote(rule_name, score, message, severity) ==
    IF score >= ScoreMin /\ score <= ScoreMax /\ severity \in Severities
    THEN Ret([rule_name |-> rule_name, score |-> score,
              message |-> message, severity |-> severity])
    ELSE Raise("ValidationError")

\* the thresholds taken as exclusive
SeverityOfExclusive(score, hi, med) ==
    IF score > hi THEN "high" ELSE IF score > med THEN "medium" ELSE "low"

\* "high" if score >= hi else "medium" if score >= med else "low"
SeverityOf(score, hi, med) ==
    IF score >= hi THEN "high" ELSE IF score >= med THEN "medium" ELSE "low"

\* messages, or [fallback] when no message was appended
OrDefault(messages, fallback) == IF messages = <<>> THEN <<fallback>> ELSE messages

(***************************************************************************)
(* risk/rules.py: RiskRules.  A message is the sequence of the parts that  *)
(* "; ".join(messages) joins, each without the number formatted into it.   *)
(***************************************************************************)
\* the freeze authority counted whenever its address is there
check_authorities_freeze_by_address(token_meta) ==
    IF ~TruthyDict(token_meta)
    THEN RiskNote(RN_Authorities, 10, <<"No authority information available">>, "medium")
    ELSE LET mint   == /\ TruthyStr(Get(token_meta, "mint_authority", NoneStr))
                       /\ ~TruthyBool(Get(token_meta, "is_mint_authority_renounced", PyFalse))
             freeze == TruthyStr(Get(token_meta, "freeze_authority", NoneStr))
             score  == (IF mint THEN 25 ELSE 0) + (IF freeze THEN 15 ELSE 0)
             messages == (IF mint THEN <<"Mint authority not renounced">> ELSE <<>>)
                         \o (IF freeze THEN <<"Freeze authority present">> ELSE <<>>)
         IN  RiskNote(RN_Authorities, Min(score, 100),
                      OrDefault(messages, "Authorities properly renounced"),
                      SeverityOf(score, 30, 15))

check_authorities(token_meta) ==
    IF ~TruthyDict(token_meta)
    THEN RiskNote(RN_Authorities, 10, <<"No authority information available">>, "medium")
    ELSE LET mint_authority      == Get(token_meta, "mint_authority", NoneStr)
             is_mint_renounced   == Get(token_meta, "is_mint_authority_renounced", PyFalse)
             freeze_authority    == Get(token_meta, "freeze_authority", NoneStr)
             is_freeze_renounced == Get(token_meta, "is_freeze_authority_renounced", PyFalse)
             mint   == TruthyStr(mint_authority) /\ ~TruthyBool(is_mint_renounced)
             freeze == TruthyStr(freeze_authority) /\ ~TruthyBool(is_freeze_renounced)
             score  == (IF mint THEN 25 ELSE 0) + (IF freeze THEN 15 ELSE 0)
             messages == (IF mint THEN <<"Mint authority not renounced">> ELSE <<>>)
                         \o (IF freeze THEN <<"Freeze authority present">> ELSE <<>>)
         IN  RiskNote(RN_Authorities, Min(score, 100),
                      OrDefault(messages, "Authorities properly renounced"),
                      SeverityOf(score, 30, 15))

\* the loop of lines 98-102: the largest liquidity_usd that is a non-zero number
RECURSIVE MaxLiquidity(_, _)
MaxLiquidity(pairs, acc) ==
    IF pairs = <<>> THEN acc
    ELSE LET liquidity == Get(Head(pairs), "liquidity_usd", NoneNum)
         IN  MaxLiquidity(Tail(pairs),
                          IF TruthyNum(liquidity) THEN Max(acc, liquidity) ELSE acc)

check_liquidity(pairs, liquidity_lock) ==
    IF pairs = <<>>
    THEN RiskNote(RN_Liquidity, 25, <<"No trading pairs found">>, "high")
    ELSE LET max_liquidity_usd == MaxLiquidity(pairs, 0)
             liq == IF max_liquidity_usd < 2000 THEN 25
                    ELSE IF max_liquidity_usd < 10000 THEN 10 ELSE 0
             liqmsg == IF max_liquidity_usd < 2000 THEN <<"Low liquidity">>
                       ELSE IF max_liquidity_usd < 10000 THEN <<"Moderate liquidity">>
                       ELSE <<>>
             is_locked         == Get(liquidity_lock, "is_locked", PyFalse)
             locked_percentage == Get(liquidity_lock, "locked_percentage", NoneNum)
             lock_duration     == Get(liquidity_lock, "lock_duration_days", NoneNum)
             lock == IF ~TruthyDict(liquidity_lock) THEN 10
                     ELSE IF ~TruthyBool(is_locked) THEN 20
                     ELSE IF TruthyNum(locked_percentage) /\ locked_percentage < 60 THEN 15
                     ELSE IF TruthyNum(lock_duration) /\ lock_duration < 7 THEN 10
                     ELSE 0
             lockmsg == IF ~TruthyDict(liquidity_lock) THEN <<"No lock information available">>
                     ELSE IF ~TruthyBool(is_locked) THEN <<"No liquidity lock detected">>
                     ELSE IF TruthyNum(locked_percentage) /\ locked_percentage < 60
                          THEN <<"Low lock percentage">>
                     ELSE IF TruthyNum(lock_duration) /\ lock_duration < 7
                          THEN <<"Short lock duration">>
                     ELSE <<>>
             score == liq + lock
         IN  RiskNote(RN_Liquidity, Min(score, 100),
                      OrDefault(liqmsg \o lockmsg, "Liquidity appears adequate"),
                      SeverityOf(score, 30, 15))

\* cannot-sell and the honeypot flag counted as one penalty of 35
check_tradeability_honeypot_once(trading_info) ==
    IF ~TruthyDict(trading_info)
    THEN RiskNote(RN_Tradeability, 15, <<"No trading information available">>, "medium")
    ELSE LET sell_tax == Get(trading_info, "sell_tax_percentage", NoneNum)
             buy_tax  == Get(trading_info, "buy_tax_percentage", NoneNum)
             honeypot == \/ ~TruthyBool(Get(trading_info, "can_sell", PyTrue))
                         \/ TruthyBool(Get(trading_info, "is_honeypot", PyFalse))
             score == (IF honeypot THEN 35 ELSE 0)
                      + (IF TruthyNum(sell_tax) /\ sell_tax > 10 THEN 35
                         ELSE IF TruthyNum(sell_tax) /\ sell_tax > 5 THEN 15 ELSE 0)
                      + (IF TruthyNum(buy_tax) /\ buy_tax > 10 THEN 15 ELSE 0)
         IN  RiskNote(RN_Tradeability, Min(score, 100),
                      IF score = 0 THEN <<"Trading appears normal">>
                      ELSE <<"Trading restricted">>,
                      SeverityOf(score, 30, 15))

check_tradeability(trading_info) ==
    IF ~TruthyDict(trading_info)
    THEN RiskNote(RN_Tradeability, 15, <<"No trading information available">>, "medium")
    ELSE LET can_sell    == Get(trading_info, "can_sell", PyTrue)
             sell_tax    == Get(trading_info, "sell_tax_percentage", NoneNum)
             buy_tax     == Get(trading_info, "buy_tax_percentage", NoneNum)
             is_honeypot == Get(trading_info, "is_honeypot", PyFalse)
             sellHigh == TruthyNum(sell_tax) /\ sell_tax > 10
             sellMod  == ~sellHigh /\ TruthyNum(sell_tax) /\ sell_tax > 5
             buyHigh  == TruthyNum(buy_tax) /\ buy_tax > 10
             score == (IF ~TruthyBool(can_sell) THEN 35 ELSE 0)
                      + (IF sellHigh THEN 35 ELSE IF sellMod THEN 15 ELSE 0)
                      + (IF buyHigh THEN 15 ELSE 0)
                      + (IF TruthyBool(is_honeypot) THEN 35 ELSE 0)
             messages == (IF ~TruthyBool(can_sell) THEN <<"Cannot sell tokens (honeypot)">> ELSE <<>>)
                         \o (IF sellHigh THEN <<"High sell tax">>
                             ELSE IF sellMod THEN <<"Moderate sell tax">> ELSE <<>>)
                         \o (IF buyHigh THEN <<"High buy tax">> ELSE <<>>)
                         \o (IF TruthyBool(is_honeypot) THEN <<"Detected as honeypot">> ELSE <<>>)
         IN  RiskNote(RN_Tradeability, Min(score, 100),
                      OrDefault(messages, "Trading appears normal"),
                      SeverityOf(score, 30, 15))

\* sum(float(h.get("balance", 0)) for h in holders[:count]); float(None)
\* raises TypeError, which is reported as the sum NoneNum
RECURSIVE SumBalancesFrom(_, _, _)
SumBalancesFrom(holders, first, last) ==
    IF first > last THEN 0
    ELSE IF first = last THEN Get(holders[first], "balance", 0)
    ELSE Strict2(LAMBDA front, back :
                     IF front = NoneNum \/ back = NoneNum THEN NoneNum ELSE front + back,
                 SumBalancesFrom(holders, first, (first + last) \div 2),
                 SumBalancesFrom(holders, (first + last) \div 2 + 1, last))

SumBalances(holders, count) == SumBalancesFrom(holders, 1, Min(count, Len(holders)))

\* (part / total) * 100 in float arithmetic
Hundred == FFromInt(100)
Percent(part, total) == FMul(FDiv(FFromInt(part), FFromInt(total)), Hundred)

\* x > n for a float x and an integer n
FGt(x, n) == FCmp(x, FFromInt(n)) > 0

\* the limits of the top-10% share taken as inclusive
Top10ScoreInclusive(top_10_percent) ==
    Strict1(LAMBDA p : IF FCmp(p, FFromInt(70)) >= 0 THEN 30
                       ELSE IF FCmp(p, FFromInt(50)) >= 0 THEN 15 ELSE 0,
            top_10_percent)

\* lines 249-254 and 257-262: what the two shares add to the score
Top10Score(top_10_percent) ==
    Strict1(LAMBDA p : IF FGt(p, 70) THEN 30 ELSE IF FGt(p, 50) THEN 15 ELSE 0,
            top_10_percent)

Top1Score(top_1_percent) ==
    Strict1(LAMBDA p : IF FGt(p, 30) THEN 25 ELSE IF FGt(p, 20) THEN 10 ELSE 0,
            top_1_percent)

\* lines 264-272, t10 and t1 being what the two shares added
ConcentrationNote(t10, t1) ==
    LET messages == (IF t10 = 30 THEN <<"High top-10% concentration">>
                     ELSE IF t10 = 15 THEN <<"Moderate top-10% concentration">>
                     ELSE <<>>)
                    \o (IF t1 = 25 THEN <<"High top-1% concentration">>
                        ELSE IF t1 = 10 THEN <<"Moderate top-1% concentration">>
                        ELSE <<>>)
        score == t10 + t1
    IN  RiskNote(RN_Concentration, Min(score, 100),
                 OrDefault(messages, "Holder distribution appears healthy"),
                 SeverityOf(score, 30, 15))

check_concentration(holders) ==
    IF holders = <<>>
    THEN RiskNote(RN_Concentration, 20, <<"No holder information available">>, "medium")
    ELSE LET total_holders        == Len(holders)
             top_1_percent_count  == Max(1, total_holders \div 100)
             top_10_percent_count == Max(1, total_holders \div 10)
             top_1_percent_balance  == SumBalances(holders, top_1_percent_count)
             top_10_percent_balance == SumBalances(holders, top_10_percent_count)
             total_balance          == SumBalances(holders, total_holders)
         IN  IF total_balance = NoneNum THEN Raise("TypeError")
             ELSE IF total_balance > 0
             THEN Strict2(ConcentrationNote,
                          Top10Score(Percent(top_10_percent_balance, total_balance)),
                          Top1Score(Percent(top_1_percent_balance, total_balance)))
             ELSE ConcentrationNote(0, 0)

\* the loop of lines 296-300: the earliest pair_created_at, None when no
\* pair has one.  Times are whole seconds.
RECURSIVE OldestPair(_, _)
OldestPair(pairs, oldest_pair) ==
    IF pairs = <<>> THEN oldest_pair
    ELSE LET created_at == Get(Head(pairs), "pair_created_at", NoneNum)
         IN  OldestPair(Tail(pairs),
                        IF created_at # NoneNum
                           /\ (oldest_pair = NoneNum \/ created_at < oldest_pair)
                        THEN created_at ELSE oldest_pair)

SecondsPerHour == 3600

\* now1 and now2 are the two readings of datetime.now(), lines 304 and 316
check_age_hype(pairs, now1, now2) ==
    IF pairs = <<>>
    THEN RiskNote(RN_AgeHype, 10, <<"No trading pairs to analyze">>, "low")
    ELSE LET oldest_pair == OldestPair(pairs, NoneNum)
             age_seconds == now1 - oldest_pair
             veryNew == oldest_pair # NoneNum /\ age_seconds < 24 * SecondsPerHour
             new     == oldest_pair # NoneNum /\ ~veryNew
                        /\ age_seconds < 168 * SecondsPerHour
             spike   == /\ \E i \in 1..Len(pairs) :
                              LET volume_24h == Get(pairs[i], "volume_24h_usd", NoneNum)
                              IN  TruthyNum(volume_24h) /\ volume_24h > 1000000
                        /\ oldest_pair # NoneNum
                        /\ now2 - oldest_pair < 86400
             score == (IF veryNew THEN 10 ELSE 0) + (IF spike THEN 10 ELSE 0)
             messages == (IF veryNew THEN <<"Very new token">>
                          ELSE IF new THEN <<"New token">> ELSE <<>>)
                         \o (IF spike THEN <<"High volume on new token (potential PnD)">>
                             ELSE <<>>)
         IN  RiskNote(RN_AgeHype, Min(score, 100),
                      OrDefault(messages, "Age and volume patterns appear normal"),
                      SeverityOf(score, 20, 10))

\* dev holdings of 20% counted as high
check_pump_fun_dev_inclusive(pump_fun_info) ==
    IF ~TruthyDict(pump_fun_info)
       \/ ~TruthyBool(Get(pump_fun_info, "is_pump_fun_token", PyFalse))
    THEN RiskNote(RN_PumpFun, 0, <<"Not a Pump.fun token">>, "low")
    ELSE LET dev_holdings == Get(pump_fun_info, "dev_holdings_percentage", NoneNum)
             dev == TruthyNum(dev_holdings) /\ dev_holdings >= 20
             mig == Get(pump_fun_info, "migration_status", NoneStr) = S_not_migrated
             score == (IF dev THEN 20 ELSE 0) + (IF mig THEN 10 ELSE 0)
             messages == (IF dev THEN <<"High dev holdings">> ELSE <<>>)
                         \o (IF mig THEN <<"Migration not completed">> ELSE <<>>)
         IN  RiskNote(RN_PumpFun, Min(score, 100),
                      OrDefault(messages, "Pump.fun token appears normal"),
                      SeverityOf(score, 20, 10))

check_pump_fun(pump_fun_info) ==
    IF ~TruthyDict(pump_fun_info)
    THEN RiskNote(RN_PumpFun, 0, <<"Not a Pump.fun token">>, "low")
    ELSE LET is_pump_fun      == Get(pump_fun_info, "is_pump_fun_token", PyFalse)
             dev_holdings     == Get(pump_fun_info, "dev_holdings_percentage", NoneNum)
             migration_status == Get(pump_fun_info, "migration_status", NoneStr)
             dev == TruthyNum(dev_holdings) /\ dev_holdings > 20
             mig == migration_status = S_not_migrated
             score == (IF dev THEN 20 ELSE 0) + (IF mig THEN 10 ELSE 0)
             messages == (IF dev THEN <<"High dev holdings">> ELSE <<>>)
                         \o (IF mig THEN <<"Migration not completed">> ELSE <<>>)
         IN  IF ~TruthyBool(is_pump_fun)
             THEN RiskNote(RN_PumpFun, 0, <<"Not a Pump.fun token">>, "low")
             ELSE RiskNote(RN_PumpFun, Min(score, 100),
                           OrDefault(messages, "Pump.fun token appears normal"),
                           SeverityOf(score, 20, 10))

major_dexs == {S_raydium, S_orca, S_jupiter, S_meteora}

check_listings(pairs) ==
    IF pairs = <<>>
    THEN RiskNote(RN_Listings, 20, <<"No trading pairs found">>, "medium")
    ELSE LET ids == {Get(pairs[i], "dex_id", <<>>) : i \in 1..Len(pairs)}
             found_dexs == {StrLower(d) : d \in ids \ {NoneStr}} \cap major_dexs
             score == IF found_dexs = {} THEN 10
                      ELSE IF Cardinality(found_dexs) < 2 THEN 5 ELSE 0
             messages == IF found_dexs = {} THEN <<"Not on major DEXs">>
                         ELSE IF Cardinality(found_dexs) < 2 THEN <<"Limited DEX presence">>
                         ELSE <<>>
         IN  IF NoneStr \in ids THEN Raise("AttributeError")
             ELSE RiskNote(RN_Listings, Min(score, 100),
                           OrDefault(messages, "Good DEX presence"),
                           SeverityOf(score, 15, 5))

\* a medium report scored above a high one
check_rugcheck_override_swapped(rugcheck_data) ==
    IF ~TruthyDict(rugcheck_data)
    THEN RiskNote(RN_RugCheck, 0, <<"RugCheck data not available">>, "low")
    ELSE IF StrLower(Get(rugcheck_data, "risk_level", <<>>)) = S_high
    THEN RiskNote(RN_RugCheck, 20, <<"RugCheck reports HIGH RISK">>, "high")
    ELSE IF StrLower(Get(rugcheck_data, "risk_level", <<>>)) = S_medium
    THEN RiskNote(RN_RugCheck, 30, <<"RugCheck reports MEDIUM RISK">>, "medium")
    ELSE RiskNote(RN_RugCheck, 0, <<"RugCheck reports LOW RISK">>, "low")

check_rugcheck_override(rugcheck_data) ==
    IF ~TruthyDict(rugcheck_data)
    THEN RiskNote(RN_RugCheck, 0, <<"RugCheck data not available">>, "low")
    ELSE LET raw == Get(rugcheck_data, "risk_level", <<>>)
             risk_level == StrLower(raw)
         IN  IF raw = NoneStr THEN Raise("AttributeError")
             ELSE IF risk_level = S_high
             THEN RiskNote(RN_RugCheck, 20, <<"RugCheck reports HIGH RISK">>, "high")
             ELSE IF risk_level = S_medium
             THEN RiskNote(RN_RugCheck, 10, <<"RugCheck reports MEDIUM RISK">>, "medium")
             ELSE RiskNote(RN_RugCheck, 0, <<"RugCheck reports LOW RISK">>, "low")

(***************************************************************************)
(* risk/rules.py: RiskRules.__init__, the weights of the rules, and        *)
(* risk/scoring.py: RiskScorer.                                            *)
(***************************************************************************)
\* the float literal 0.<hundredths>
W(hundredths) == FLiteral(hundredths, 100)

\* the keys are authorities, liquidity, tradeability, concentration, age_hype,
\* pump_fun and listings
\* the weights with four times the weight on tradeability
weights_tradeability_heavy ==
    (<<"a", "u", "t", "h", "o", "r", "i", "t", "i", "e", "s">> :> W(20))
    @@ (<<"l", "i", "q", "u", "i", "d", "i", "t", "y">> :> W(25))
    @@ (<<"t", "r", "a", "d", "e", "a", "b", "i", "l", "i", "t", "y">> :> W(80))
    @@ (<<"c", "o", "n", "c", "e", "n", "t", "r", "a", "t", "i", "o", "n">> :> W(15))
    @@ (<<"a", "g", "e", "_", "h", "y", "p", "e">> :> W(10))
    @@ (<<"p", "u", "m", "p", "_", "f", "u", "n">> :> W(5))
    @@ (<<"l", "i", "s", "t", "i", "n", "g", "s">> :> W(5))

weights ==
    (<<"a", "u", "t", "h", "o", "r", "i", "t", "i", "e", "s">> :> W(20))
    @@ (<<"l", "i", "q", "u", "i", "d", "i", "t", "y">> :> W(25))
    @@ (<<"t", "r", "a", "d", "e", "a", "b", "i", "l", "i", "t", "y">> :> W(20))
    @@ (<<"c", "o", "n", "c", "e", "n", "t", "r", "a", "t", "i", "o", "n">> :> W(15))
    @@ (<<"a", "g", "e", "_", "h", "y", "p", "e">> :> W(10))
    @@ (<<"p", "u", "m", "p", "_", "f", "u", "n">> :> W(5))
    @@ (<<"l", "i", "s", "t", "i", "n", "g", "s">> :> W(5))

DefaultWeight == W(10)

\* note.rule_name.lower().replace(".", "")
WeightKey(rule_name) == StrRemove(StrLower(rule_name), ".")

\* self.rules.weights.get(<key of the note>, 0.1)
WeightOf(rule_name) == Get(weights, WeightKey(rule_name), DefaultWeight)

\* the loop of lines 36-39: <<weighted_sum, total_weight>> after the notes
RECURSIVE Accumulate(_, _, _)
Accumulate(notes, weighted_sum, total_weight) ==
    IF notes = <<>> THEN <<weighted_sum, total_weight>>
    ELSE LET note   == Head(notes)
             weight == WeightOf(note.rule_name)
         IN  Strict2(LAMBDA ws, tw : Accumulate(Tail(notes), ws, tw),
                     FAdd(weighted_sum, FMul(FFromInt(note.score), weight)),
                     FAdd(total_weight, weight))

DefaultScore == 50

\* the scores added up, not averaged
RECURSIVE SumOfScores(_)
SumOfScores(notes) ==
    IF notes = <<>> THEN 0 ELSE Head(notes).score + SumOfScores(Tail(notes))

calculate_overall_score_sum(notes) ==
    IF notes = <<>> THEN DefaultScore ELSE SumOfScores(notes)

\* the largest score of the notes in place of their mean
calculate_overall_score_max(notes) ==
    IF notes = <<>> THEN DefaultScore
    ELSE CHOOSE m \in {notes[i].score : i \in 1..Len(notes)} :
            \A i \in 1..Len(notes) : notes[i].score <= m

calculate_overall_score(notes) ==
    IF notes = <<>> THEN DefaultScore
    ELSE Strict1(LAMBDA acc : IF acc[2] = FZero THEN DefaultScore
                              ELSE Max(0, Min(100, FTrunc(FDiv(acc[1], acc[2])))),
                 Accumulate(notes, FZero, FZero))

\* the boundaries of the tiers taken as exclusive
get_risk_level_exclusive(score) ==
    IF score < 29 THEN "safe" ELSE IF score < 59 THEN "caution" ELSE "high_risk"

get_risk_level(score) ==
    IF score <= 29 THEN "safe" ELSE IF score <= 59 THEN "caution" ELSE "high_risk"

get_verdict(score) ==
    IF score <= 29 THEN "Likely OK (still DYOR)"
    ELSE IF score <= 59 THEN "Caution" ELSE "High Risk / Avoid"

(***************************************************************************)
(* models.py: the validation pydantic applies to the records handed to     *)
(* RiskReport.  A field without a default must be present, and a field     *)
(* that is not Optional must not be None.                                  *)
(***************************************************************************)
Required(d, k, none) == k \in DOMAIN d /\ d[k] # none
NotNone(d, k, none)  == k \in DOMAIN d => d[k] # none

ValidPair(p) ==
    /\ Required(p, "pair_address", NoneStr)
    /\ Required(p, "base_token", PyNone)
    /\ Required(p, "quote_token", PyNone)

ValidTokenMeta(t) ==
    /\ Required(t, "address", NoneStr)
    /\ NotNone(t, "is_mint_authority_renounced", NoneBool)
    /\ NotNone(t, "is_freeze_authority_renounced", NoneBool)

ValidHolderStat(h) ==
    /\ Required(h, "address", NoneStr)
    /\ Required(h, "balance", NoneNum)
    /\ Required(h, "percentage", NoneNum)

ValidLiquidityLock(l) == NotNone(l, "is_locked", NoneBool)

ValidTradingInfo(t) ==
    /\ NotNone(t, "can_buy", NoneBool)
    /\ NotNone(t, "can_sell", NoneBool)
    /\ NotNone(t, "is_honeypot", NoneBool)

ValidPumpFunInfo(i) == NotNone(i, "is_pump_fun_token", NoneBool)

RiskLevels == {"safe", "caution", "high_risk"}

\* the optional fields of the models, with their defaults
Defaults ==
    [Pair          |-> [price_usd |-> NoneNum, price_native |-> NoneNum,
                        liquidity_usd |-> NoneNum, liquidity_native |-> NoneNum,
                        fdv_usd |-> NoneNum, volume_24h_usd |-> NoneNum,
                        volume_24h_native |-> NoneNum, txns_24h |-> NoneNum,
                        pair_created_at |-> NoneNum, dex_id |-> NoneStr,
                        router |-> NoneStr],
     TokenMeta     |-> [symbol |-> NoneStr, name |-> NoneStr, decimals |-> NoneNum,
                        supply |-> NoneNum, mint_authority |-> NoneStr,
                        freeze_authority |-> NoneStr,
                        is_mint_authority_renounced |-> PyFalse,
                        is_freeze_authority_renounced |-> PyFalse],
     HolderStat    |-> [is_insider |-> PyFalse, is_dev_wallet |-> PyFalse],
     LiquidityLock |-> [is_locked |-> PyFalse, locked_percentage |-> NoneNum,
                        lock_duration_days |-> NoneNum, lock_provider |-> NoneStr,
                        lock_expiry |-> NoneNum],
     TradingInfo   |-> [can_buy |-> PyTrue, can_sell |-> PyTrue,
                        buy_tax_percentage |-> NoneNum,
                        sell_tax_percentage |-> NoneNum, is_honeypot |-> PyFalse,
                        slippage_tolerance |-> NoneNum],
     PumpFunInfo   |-> [is_pump_fun_token |-> PyFalse, creation_time |-> NoneNum,
                        dev_wallet |-> NoneStr, migration_status |-> NoneStr,
                        dev_holdings_percentage |-> NoneNum]]

\* the fields of the models that have no default
RequiredFields ==
    [Pair          |-> {"pair_address", "base_token", "quote_token"},
     TokenMeta     |-> {"address"},
     HolderStat    |-> {"address", "balance", "percentage"},
     LiquidityLock |-> {}, TradingInfo |-> {}, PumpFunInfo |-> {}]

\* the model object built from a valid dict: the declared fields, those the
\* dict lacks at their defaults; keys that are not declared are dropped
Snapshot(d, model) ==
    [k \in RequiredFields[model] \cup DOMAIN Defaults[model] |->
        IF k \in DOMAIN d THEN d[k] ELSE Defaults[model][k]]

OptionalSnapshot(d, model) == IF d = PyNone THEN PyNone ELSE Snapshot(d, model)

Snapshots(list, model) == [i \in 1..Len(list) |-> Snapshot(list[i], model)]

RiskReport(r) ==
    IF /\ r.overall_score >= ScoreMin /\ r.overall_score <= ScoreMax
       /\ r.risk_level \in RiskLevels
       /\ r.token_meta = PyNone \/ ValidTokenMeta(r.token_meta)
       /\ \A i \in 1..Len(r.pairs) : ValidPair(r.pairs[i])
       /\ \A i \in 1..Len(r.top_holders) : ValidHolderStat(r.top_holders[i])
       /\ r.liquidity_lock = PyNone \/ ValidLiquidityLock(r.liquidity_lock)
       /\ r.trading_info = PyNone \/ ValidTradingInfo(r.trading_info)
       /\ r.pump_fun_info = PyNone \/ ValidPumpFunInfo(r.pump_fun_info)
    THEN Ret([r EXCEPT
                !.token_meta     = OptionalSnapshot(@, "TokenMeta"),
                !.pairs          = Snapshots(@, "Pair"),
                !.top_holders    = Snapshots(@, "HolderStat"),
                !.liquidity_lock = OptionalSnapshot(@, "LiquidityLock"),
                !.trading_info   = OptionalSnapshot(@, "TradingInfo"),
                !.pump_fun_info  = OptionalSnapshot(@, "PumpFunInfo")])
    ELSE Raise("ValidationError")

(***************************************************************************)
(* risk/scoring.py: RiskScorer.assess_token_risk.  The rules run in the    *)
(* order of the source; the first one that raises ends the call.           *)
(***************************************************************************)
OrEmpty(list) == IF list = NoneList THEN <<>> ELSE list

\* None where a list of str is expected, and "names or []" of lines 135-138
NoneNames == <<"None">>
OrEmptyNames(list) == IF list = NoneNames THEN <<>> ELSE list

\* the RugCheck rule run whether or not its data is there
RuleResultsAlwaysRugCheck(a, now1, now2) ==
    LET pairs   == OrEmpty(a.pairs)
        holders == OrEmpty(a.holders)
    IN  << check_authorities(a.token_meta),
           check_liquidity(pairs, a.liquidity_lock),
           check_tradeability(a.trading_info),
           check_concentration(holders),
           check_age_hype(pairs, now1, now2),
           check_pump_fun(a.pump_fun_info),
           check_listings(pairs),
           check_rugcheck_override(a.rugcheck_data) >>

\* the results of the rule calls of lines 143-166, in order, were none to raise
RuleResults(a, now1, now2) ==
    LET pairs   == OrEmpty(a.pairs)
        holders == OrEmpty(a.holders)
    IN  << check_authorities(a.token_meta),
           check_liquidity(pairs, a.liquidity_lock),
           check_tradeability(a.trading_info),
           check_concentration(holders),
           check_age_hype(pairs, now1, now2),
           check_pump_fun(a.pump_fun_info),
           check_listings(pairs) >>
        \o (IF TruthyDict(a.rugcheck_data)
            THEN <<check_rugcheck_override(a.rugcheck_data)>> ELSE <<>>)

RuleOrder == <<"check_authorities", "check_liquidity", "check_tradeability",
               "check_concentration", "check_age_hype", "check_pump_fun",
               "check_listings", "check_rugcheck_override">>

\* the number of rule calls made: up to and including the first that raises
Invoked(results) ==
    IF \E i \in 1..Len(results) : results[i].raised
    THEN CHOOSE i \in 1..Len(results) :
            results[i].raised /\ \A j \in 1..(i - 1) : ~results[j].raised
    ELSE Len(results)

\* the report, were the warnings not handed to it
ReportWithoutWarnings(a, notes) ==
    Strict1(LAMBDA overall_score :
                RiskReport([mint_address      |-> a.mint_address,
                            overall_score     |-> overall_score,
                            verdict           |-> get_verdict(overall_score),
                            risk_level        |-> get_risk_level(overall_score),
                            notes             |-> notes,
                            token_meta        |-> a.token_meta,
                            pairs             |-> OrEmpty(a.pairs),
                            top_holders       |-> OrEmpty(a.holders),
                            liquidity_lock    |-> a.liquidity_lock,
                            trading_info      |-> a.trading_info,
                            pump_fun_info     |-> a.pump_fun_info,
                            data_sources_used |-> OrEmptyNames(a.data_sources_used),
                            warnings          |-> <<>>]),
            calculate_overall_score(notes))

\* lines 169-188: the report built from the notes
Report(a, notes) ==
    Strict1(LAMBDA overall_score :
                RiskReport([mint_address      |-> a.mint_address,
                            overall_score     |-> overall_score,
                            verdict           |-> get_verdict(overall_score),
                            risk_level        |-> get_risk_level(overall_score),
                            notes             |-> notes,
                            token_meta        |-> a.token_meta,
                            pairs             |-> OrEmpty(a.pairs),
                            top_holders       |-> OrEmpty(a.holders),
                            liquidity_lock    |-> a.liquidity_lock,
                            trading_info      |-> a.trading_info,
                            pump_fun_info     |-> a.pump_fun_info,
                            data_sources_used |-> OrEmptyNames(a.data_sources_used),
                            warnings          |-> OrEmptyNames(a.warnings)]),
            calculate_overall_score(notes))

\* the call, given what its rule calls give
AssessFrom(a, results) ==
    LET n == Invoked(results)
    IN  [calls |-> SubSeq(RuleOrder, 1, n),
         ret   |-> IF results[n].raised THEN results[n]
                   ELSE Strict1(LAMBDA notes : Report(a, notes),
                                [i \in 1..Len(results) |-> results[i].value])]

\* [ret |-> what the call returns or raises, calls |-> the rules it invoked]
assess_token_risk(a, now1, now2) ==
    Strict1(LAMBDA results : AssessFrom(a, results), RuleResults(a, now1, now2))

(***************************************************************************)
(* utils.py: the (success, data, error) triples of make_http_request, as   *)
(* the clients receive them.                                               *)
(***************************************************************************)
Success(data)  == [success |-> TRUE, data |-> data, error |-> NoneStr]
Failure(error) == [success |-> FALSE, data |-> PyNone, error |-> error]

\* "not success or not data" of the clients
Unusable(response) == ~response.success \/ ~TruthyDict(response.data)

(***************************************************************************)
(* datasources/dexscreener.py.  The bodies of the model carry no prices,   *)
(* FDV or transaction counts: those fields of a parsed pair are None.      *)
(***************************************************************************)
\* Decimal(str(d[outer][inner])) of lines 76-105: a number, None where the
\* outer value is absent or falsy or has no inner key; it raises where the
\* inner value is None (decimal.InvalidOperation is not among the caught)
NestedDecimal(data, outer, inner) ==
    IF outer \notin DOMAIN data \/ ~TruthyDict(data[outer]) THEN Ret(NoneNum)
    ELSE IF inner \notin DOMAIN data[outer] THEN Ret(NoneNum)
    ELSE IF data[outer][inner] = NoneNum THEN Raise("InvalidOperation")
    ELSE Ret(data[outer][inner])

\* datetime.fromtimestamp(data["pairCreatedAt"] / 1000), in whole seconds
CreatedAt(data) ==
    IF "pairCreatedAt" \in DOMAIN data /\ TruthyNum(data["pairCreatedAt"])
    THEN data["pairCreatedAt"] \div 1000
    ELSE NoneNum

\* the Pair of a pair of the API, or None where something raises
parse_pair_data(data) ==
    LET pair_address == Get(data, "pairAddress", <<>>)
        base_token   == Get(data, "baseToken", <<>>)
        quote_token  == Get(data, "quoteToken", <<>>)
        liquidity    == NestedDecimal(data, "liquidity", "usd")
        volume       == NestedDecimal(data, "volume", "h24")
        pair == [pair_address |-> pair_address, base_token |-> base_token,
                 quote_token |-> quote_token, liquidity_usd |-> liquidity.value,
                 liquidity_native |-> liquidity.value,
                 volume_24h_usd |-> volume.value,
                 volume_24h_native |-> volume.value,
                 pair_created_at |-> CreatedAt(data),
                 dex_id |-> Get(data, "dexId", <<>>),
                 router |-> Get(data, "url", <<>>)]
    IN  IF liquidity.raised \/ volume.raised \/ ~ValidPair(pair)
        THEN PyNone
        ELSE Snapshot(pair, "Pair")

\* lines 19-49: the pairs parsed from the response, those that fail left out
get_pairs_by_token(response) ==
    IF Unusable(response) THEN Ret(<<>>)
    ELSE LET pairs_data == Get(response.data, "pairs", <<>>)
         IN  IF pairs_data = NoneList THEN Raise("TypeError")
             ELSE Ret(SelectSeq([i \in 1..Len(pairs_data) |->
                                    parse_pair_data(pairs_data[i])],
                                LAMBDA pair : pair # PyNone))

\* lines 308-333
DexScreenerClient_get_token_info(mint_address, response) ==
    Strict1(LAMBDA pairs :
                IF pairs.raised THEN pairs
                ELSE IF pairs.value = <<>> THEN Ret(PyNone)
                ELSE LET base_token == pairs.value[1].base_token
                     IN  Ret([address  |-> Get(base_token, "address", mint_address),
                              symbol   |-> Get(base_token, "symbol", <<>>),
                              name     |-> Get(base_token, "name", <<>>),
                              decimals |-> Get(base_token, "decimals", 0),
                              pairs    |-> pairs.value]),
            get_pairs_by_token(response))

(***************************************************************************)
(* datasources/birdeye.py.  get_token_info makes its four requests in turn *)
(* and returns a dict whatever they give.                                  *)
(***************************************************************************)
\* "x or {}"
OrEmptyDict(d) == IF TruthyDict(d) THEN d ELSE <<>>

\* lines 28-51, and likewise get_token_price and get_token_metadata
get_token_overview(response) ==
    IF Unusable(response) THEN PyNone ELSE Get(response.data, "data", <<>>)

\* lines 103-126
get_pools(response) ==
    IF Unusable(response) THEN Ret(<<>>)
    ELSE LET data == Get(response.data, "data", <<>>)
         IN  IF data = PyNone THEN Raise("AttributeError")
             ELSE Ret(Get(data, "items", <<>>))

\* lines 282-316
BirdeyeClient_get_token_info(mint_address, responses) ==
    Strict1(LAMBDA pools :
                IF pools.raised THEN pools
                ELSE Ret([address  |-> mint_address,
                          overview |->
                              OrEmptyDict(get_token_overview(responses.overview)),
                          price    |->
                              OrEmptyDict(get_token_overview(responses.price)),
                          pools    |-> OrEmpty(pools.value),
                          metadata |->
                              OrEmptyDict(get_token_overview(responses.metadata))]),
            get_pools(responses.pools))

(***************************************************************************)
(* datasources/rugcheck.py.  Without a JWT no request is made.             *)
(***************************************************************************)
\* lines 26-50, and likewise the three analysis requests
get_risk_summary(jwt_token, response) ==
    IF ~jwt_token \/ Unusable(response) THEN PyNone ELSE response.data

\* lines 134-171
RugCheckClient_get_token_info(mint_address, jwt_token, responses) ==
    LET risk_summary == get_risk_summary(jwt_token, responses.risk_summary)
    IN  IF ~jwt_token \/ ~TruthyDict(risk_summary) THEN Ret(PyNone)
        ELSE Ret([address            |-> mint_address,
                  risk_summary       |-> risk_summary,
                  analysis           |-> get_risk_summary(jwt_token, responses.analysis),
                  holder_analysis    |->
                      get_risk_summary(jwt_token, responses.holder_analysis),
                  liquidity_analysis |->
                      get_risk_summary(jwt_token, responses.liquidity_analysis)])

(***************************************************************************)
(* datasources/pumpfun.py                                                  *)
(***************************************************************************)
EndsWith(t, suffix) ==
    /\ Len(t) >= Len(suffix)
    /\ SubSeq(t, Len(t) - Len(suffix) + 1, Len(t)) = suffix

S_pump    == <<"p", "u", "m", "p">>
S_unknown == <<"u", "n", "k", "n", "o", "w", "n">>
AddressLength == 44

\* lines 144-170: no request is made
get_pump_fun_creation_info(mint_address) ==
    IF EndsWith(mint_address, S_pump) \/ Len(mint_address) = AddressLength
    THEN [is_pump_fun_token |-> PyTrue, creation_time |-> NoneNum,
          dev_wallet |-> NoneStr, migration_status |-> S_unknown,
          dev_holdings_percentage |-> NoneNum]
    ELSE PyNone

\* lines 28-56 and 88-142: the body, or None without the key
get_token_info_moralis(api_key, response) ==
    IF ~api_key \/ Unusable(response) THEN PyNone ELSE response.data

\* lines 172-209
PumpFunClient_get_token_info(mint_address, keys, responses) ==
    LET moralis_info  == get_token_info_moralis(keys.moralis, responses.moralis)
        bitquery_info == IF ~TruthyDict(moralis_info)
                         THEN get_token_info_moralis(keys.bitquery, responses.bitquery)
                         ELSE PyNone
    IN  Ret([address       |-> mint_address,
             moralis_info  |-> moralis_info,
             bitquery_info |-> bitquery_info,
             pump_fun_info |-> get_pump_fun_creation_info(mint_address)])

(***************************************************************************)
(* datasources/solana_chain.py.  An account of the getTokenAccountsByMint  *)
(* result is [pubkey, owner, amount]: the fields that get_token_accounts_  *)
(* by_mint reads from a parsed account of type "account".  An amount is a  *)
(* number, None, or a string that is not a number.                         *)
(***************************************************************************)
NotANumber == -2

\* lines 24-56: the result of the RPC, or None
make_rpc_request(response) ==
    IF Unusable(response) \/ "error" \in DOMAIN response.data THEN PyNone
    ELSE Get(response.data, "result", PyNone)

\* "not result or not result.get('value')"
NoValue(result, none) ==
    ~TruthyDict(result) \/ Get(result, "value", none) \in {none, <<>>}

\* lines 58-84
get_mint_info(mint_address, response) ==
    LET result == make_rpc_request(response)
    IN  IF NoValue(result, PyNone) THEN PyNone
        ELSE [address    |-> mint_address,
              owner      |-> Get(result.value, "owner", NoneStr),
              executable |-> Get(result.value, "executable", PyFalse),
              lamports   |-> Get(result.value, "lamports", 0),
              data       |-> Get(result.value, "data", NoneStr)]

\* lines 86-106
get_token_supply(response) ==
    LET result == make_rpc_request(response)
    IN  IF TruthyDict(result) THEN result ELSE PyNone

\* lines 108-151
get_token_accounts_by_mint(response) ==
    LET result == make_rpc_request(response)
    IN  IF NoValue(result, NoneList) THEN <<>>
        ELSE [i \in 1..Len(result.value) |->
                [address |-> result.value[i].pubkey,
                 owner   |-> result.value[i].owner,
                 balance |-> result.value[i].amount]]

\* list.sort(key=balance, reverse=True): descending, equal balances in the
\* order they had
RECURSIVE SortByBalance(_)
SortByBalance(holders) ==
    IF holders = <<>> THEN <<>>
    ELSE LET n == Len(holders)
         IN  Strict1(LAMBDA sorted :
                        LET k == Cardinality({i \in 1..(n - 1) :
                                    sorted[i].balance >= holders[n].balance})
                        IN  SubSeq(sorted, 1, k) \o <<holders[n]>>
                                \o SubSeq(sorted, k + 1, n - 1),
                     SortByBalance(SubSeq(holders, 1, n - 1)))

\* lines 153-184: the accounts with a balance above 0, largest first; an
\* amount None is skipped (TypeError), one that is no number raises
get_top_holders(response) ==
    Strict1(LAMBDA accounts :
                IF \E i \in 1..Len(accounts) : accounts[i].balance = NotANumber
                THEN Raise("InvalidOperation")
                ELSE Strict1(LAMBDA positive :
                                Ret(SortByBalance(
                                        [i \in 1..Len(positive) |->
                                            [address |-> positive[i].address,
                                             balance |-> positive[i].balance,
                                             owner   |-> positive[i].owner]])),
                             SelectSeq(accounts, LAMBDA a : a.balance > 0)),
            get_token_accounts_by_mint(response))

\* lines 186-207: no request is made
get_authority_info ==
    [mint_authority |-> NoneStr, freeze_authority |-> NoneStr,
     is_mint_authority_renounced |-> PyFalse,
     is_freeze_authority_renounced |-> PyFalse]

\* lines 241-247: Decimal(supply["value"]["amount"]); None where a key is
\* missing or the amount is None
TotalSupply(supply) ==
    IF ~TruthyDict(supply) \/ "value" \notin DOMAIN supply THEN Ret(NoneNum)
    ELSE IF "amount" \notin DOMAIN supply.value THEN Ret(NoneNum)
    ELSE IF supply.value.amount = NotANumber THEN Raise("InvalidOperation")
    ELSE Ret(supply.value.amount)

\* lines 249-257: float((balance / total_supply) * 100); the supplies of the
\* model make the quotient a whole number
WithPercentage(holders, total_supply) ==
    IF holders # <<>> /\ TruthyNum(total_supply)
    THEN [i \in 1..Len(holders) |->
            holders[i] @@
            [percentage |-> (holders[i].balance * 100) \div total_supply]]
    ELSE holders

\* lines 209-268: what gather gives is None or [] where a request raised
SolanaChainClient_get_token_info(mint_address, responses) ==
    Strict2(LAMBDA supply, top_holders :
                LET holders      == IF top_holders.raised THEN <<>>
                                    ELSE top_holders.value
                    total_supply == TotalSupply(supply)
                IN  IF total_supply.raised THEN total_supply
                    ELSE Ret([address      |-> mint_address,
                              mint_info    |-> get_mint_info(mint_address,
                                                             responses.mint_info),
                              supply       |-> supply,
                              total_supply |-> total_supply.value,
                              holders      |-> WithPercentage(holders,
                                                              total_supply.value),
                              authority    |-> get_authority_info]),
            get_token_supply(responses.supply), get_top_holders(responses.accounts))

(***************************************************************************)
(* cli.py: fetch_all_data and run_analysis.  env holds what the clients    *)
(* are built from (the RugCheck JWT, the Pump.fun API keys) and the        *)
(* response triple of every upstream request.  The text of an exception   *)
(* is the name of its class.                                               *)
(***************************************************************************)
ProviderOrder == <<"dexscreener", "birdeye", "rugcheck", "pumpfun", "solana_chain">>

Providers == {ProviderOrder[i] : i \in 1..Len(ProviderOrder)}

Labels == [dexscreener |-> "DEX Screener", birdeye |-> "Birdeye",
           rugcheck |-> "RugCheck", pumpfun |-> "Pump.fun",
           solana_chain |-> "Solana chain"]

\* clients[name].get_token_info(mint)
get_token_info(name, mint, env) ==
    CASE name = "dexscreener" ->
            DexScreenerClient_get_token_info(mint, env.dexscreener)
      [] name = "birdeye" ->
            BirdeyeClient_get_token_info(mint, env.birdeye)
      [] name = "rugcheck" ->
            RugCheckClient_get_token_info(mint, env.jwt_token, env.rugcheck)
      [] name = "pumpfun" ->
            PumpFunClient_get_token_info(mint, env.keys, env.pumpfun)
      [] name = "solana_chain" ->
            SolanaChainClient_get_token_info(mint, env.solana_chain)

\* the collection, were it to end at the first provider that raises
CollectUntilFailure(mint, enabled, env) ==
    Strict2(LAMBDA clients, results :
        LET failed    == SelectSeq(clients, LAMBDA name : results[name].raised)
            attempted == IF failed = <<>> THEN clients
                         ELSE SubSeq(clients, 1,
                                     CHOOSE i \in 1..Len(clients) :
                                        clients[i] = failed[1])
        IN  [attempted |-> attempted,
             tasks     |-> [name \in {attempted[i] : i \in 1..Len(attempted)} |->
                               IF results[name].raised THEN PyNone
                               ELSE results[name].value],
             data_sources_used |->
                 SelectSeq(attempted,
                           LAMBDA name : /\ ~results[name].raised
                                         /\ TruthyDict(results[name].value)),
             warnings  |-> IF failed = <<>> THEN <<>>
                           ELSE <<Labels[failed[1]] \o " failed: "
                                    \o results[failed[1]].error>>],
        SelectSeq(ProviderOrder, LAMBDA name : name \in enabled),
        [name \in enabled \cap Providers |-> get_token_info(name, mint, env)])

\* lines 421-484 of fetch_all_data, and the same statements at lines 102-180
\* of run_analysis: the clients that are enabled are asked in turn, and one
\* that raises leaves None and a warning
CollectData(mint, enabled, env) ==
    Strict2(LAMBDA clients, results :
        LET failed == SelectSeq(clients, LAMBDA name : results[name].raised)
        IN  [attempted |-> clients,
             tasks     |-> [name \in enabled \cap Providers |->
                               IF results[name].raised THEN PyNone
                               ELSE results[name].value],
             data_sources_used |->
                 SelectSeq(clients,
                           LAMBDA name : /\ ~results[name].raised
                                         /\ TruthyDict(results[name].value)),
             warnings  |-> [i \in 1..Len(failed) |->
                               Labels[failed[i]] \o " failed: "
                                 \o results[failed[i]].error]],
        SelectSeq(ProviderOrder, LAMBDA name : name \in enabled),
        [name \in enabled \cap Providers |-> get_token_info(name, mint, env)])

\* tasks.get(name)
TaskOf(tasks, name) == IF name \in DOMAIN tasks THEN tasks[name] ELSE PyNone

\* tasks[name][key] where the task has data and the key, else the default
TaskField(tasks, name, key, default) ==
    IF TruthyDict(TaskOf(tasks, name)) /\ key \in DOMAIN tasks[name]
    THEN tasks[name][key]
    ELSE default

\* lines 500-513 (and 201-213): the pools of Birdeye as pairs; a pool whose
\* liquidity is null raises AttributeError
PoolPairs(pools) ==
    IF \E i \in 1..Len(pools) : Get(pools[i], "liquidity", <<>>) = PyNone
    THEN Raise("AttributeError")
    ELSE Ret([i \in 1..Len(pools) |->
                [pair_address   |-> Get(pools[i], "address", <<>>),
                 base_token     |-> Get(pools[i], "baseToken", <<>>),
                 quote_token    |-> Get(pools[i], "quoteToken", <<>>),
                 liquidity_usd  |-> Get(Get(pools[i], "liquidity", <<>>), "usd", NoneNum),
                 volume_24h_usd |-> Get(pools[i], "volume24h", NoneNum),
                 dex_id         |-> Get(pools[i], "dexId", <<>>)]])

\* lines 486-541: the arguments of assess_token_risk that fetch_all_data
\* returns
fetch_all_data(mint, providers, env) ==
  Strict1(LAMBDA collected :
    LET tasks == collected.tasks
    IN  Strict1(LAMBDA pools :
        [collected |-> collected,
         ret |-> IF pools.raised THEN pools
                 ELSE Ret([mint_address   |-> mint,
                           pairs          |-> TaskField(tasks, "dexscreener", "pairs", <<>>)
                                              \o pools.value,
                           token_meta     |-> TaskField(tasks, "solana_chain",
                                                        "token_meta", PyNone),
                           holders        |-> TaskField(tasks, "solana_chain",
                                                        "holders", <<>>),
                           liquidity_lock |-> PyNone,
                           trading_info   |-> TaskField(tasks, "solana_chain",
                                                        "trading_info", PyNone),
                           pump_fun_info  |-> TaskField(tasks, "pumpfun",
                                                        "pump_fun_info", PyNone),
                           rugcheck_data  |-> IF TruthyDict(TaskOf(tasks, "rugcheck"))
                                              THEN tasks["rugcheck"] ELSE PyNone,
                           data_sources_used |-> collected.data_sources_used,
                           warnings       |-> collected.warnings])],
        PoolPairs(TaskField(tasks, "birdeye", "pools", <<>>))),
    CollectData(mint, providers, env))

\* lines 78-89 and 182-261: the arguments that run_analysis hands to
\* assess_token_risk; without enabled providers every client is used
run_analysis(mint, enabled_providers, env) ==
  Strict1(LAMBDA collected :
    LET tasks    == collected.tasks
        rugcheck == TaskOf(tasks, "rugcheck")
    IN  Strict1(LAMBDA pools :
        [collected |-> collected,
         ret |-> IF pools.raised THEN pools
                 ELSE Ret([mint_address   |-> mint,
                           pairs          |-> TaskField(tasks, "dexscreener", "pairs", <<>>)
                                              \o pools.value,
                           token_meta     |->
                               IF TruthyDict(TaskOf(tasks, "solana_chain"))
                               THEN [address |-> mint,
                                     supply |-> Get(tasks["solana_chain"],
                                                    "total_supply", NoneNum),
                                     mint_authority |-> NoneStr,
                                     freeze_authority |-> NoneStr,
                                     is_mint_authority_renounced |-> PyFalse,
                                     is_freeze_authority_renounced |-> PyFalse]
                               ELSE PyNone,
                           holders        |-> TaskField(tasks, "solana_chain",
                                                        "holders", <<>>),
                           liquidity_lock |->
                               [is_locked |-> PyFalse, locked_percentage |-> NoneNum,
                                lock_duration_days |-> NoneNum,
                                lock_provider |-> NoneStr, lock_expiry |-> NoneNum],
                           trading_info   |->
                               [can_buy |-> PyTrue, can_sell |-> PyTrue,
                                buy_tax_percentage |-> NoneNum,
                                sell_tax_percentage |-> NoneNum,
                                is_honeypot |-> PyFalse],
                           pump_fun_info  |-> TaskField(tasks, "pumpfun",
                                                        "pump_fun_info", PyNone),
                           rugcheck_data  |->
                               IF ~TruthyDict(rugcheck) THEN PyNone
                               ELSE IF "risk_summary" \in DOMAIN rugcheck
                               THEN rugcheck.risk_summary
                               ELSE rugcheck,
                           data_sources_used |-> collected.data_sources_used,
                           warnings       |-> collected.warnings])],
        PoolPairs(TaskField(tasks, "birdeye", "pools", <<>>))),
    CollectData(mint, IF enabled_providers = {} THEN Providers
                      ELSE enabled_providers, env))

(***************************************************************************)
(* The inputs of the calls.  A dict carries any subset of its fields, and  *)
(* a field that is present may be None.                                    *)
(***************************************************************************)
MaxPairs   == 2
MaxHolders == 3
MaxDexs    == 3
MaxNotes   == 2
MaxTick    == 1
Now        == 1000000

\* the dicts holding nothing, or key k with one of the values V
Opt(k, V) == {<<>>} \cup {k :> v : v \in V}

SeqsUpTo(S, n) == UNION {[1..k -> S] : k \in 0..n}

RECURSIVE Repeat(_, _)
Repeat(list, k) == IF k = 0 THEN <<>> ELSE list \o Repeat(list, k - 1)

Bools == {NoneBool, PyTrue, PyFalse}

TokenMetas ==
    {PyNone} \cup
    {a @@ m @@ mr @@ f @@ fr :
        a  \in Opt("address", {S_addr}),
        m  \in Opt("mint_authority", {NoneStr, <<>>, S_addr}),
        mr \in Opt("is_mint_authority_renounced", Bools),
        f  \in Opt("freeze_authority", {NoneStr, <<>>, S_addr}),
        fr \in Opt("is_freeze_authority_renounced", Bools)}

LiquidityPairs == Opt("liquidity_usd", {NoneNum, 0, 1999, 2000, 9999, 10000, 50000})

LiquidityLocks ==
    {PyNone} \cup
    {l @@ lp @@ ld :
        l  \in Opt("is_locked", Bools),
        lp \in Opt("locked_percentage", {NoneNum, 0, 59, 60, 80}),
        ld \in Opt("lock_duration_days", {NoneNum, 0, 6, 7, 30})}

TradingInfos ==
    {PyNone} \cup
    {c @@ st @@ bt @@ h :
        c  \in Opt("can_sell", Bools),
        st \in Opt("sell_tax_percentage", {NoneNum, 0, 5, 6, 10, 11}),
        bt \in Opt("buy_tax_percentage", {NoneNum, 0, 10, 11}),
        h  \in Opt("is_honeypot", Bools)}

Holders == Opt("balance", {NoneNum, 0, 1, 2, 3, 7})

\* lists long enough for the top 10% to be more than one holder
LongHolderLists ==
    {Repeat(<<[balance |-> b1], [balance |-> b2]>>, k) :
        b1 \in {1, 9}, b2 \in {0, 1}, k \in {5, 10}}

\* twenty holders led by two large ones, and two hundred led by two: lists
\* sorted by balance in which the top groups are more than one holder
SortedHolderLists ==
    {<<[balance |-> b1], [balance |-> b2]>> \o Repeat(<<[balance |-> 1]>>, 18) :
        b1 \in {9, 30}, b2 \in {1, 9}}
    \cup {<<[balance |-> 30], [balance |-> 30]>> \o Repeat(<<[balance |-> 1]>>, 18),
          [i \in 1..200 |-> [balance |-> IF i <= 2 THEN 60 ELSE 1]]}

HolderLists == SeqsUpTo(Holders, MaxHolders) \cup LongHolderLists \cup SortedHolderLists

AgePairsOf(created, volumes) ==
    {c @@ v : c \in Opt("pair_created_at", created), v \in Opt("volume_24h_usd", volumes)}

\* pairs about the day that separates a new token from an older one
AgePairs == AgePairsOf({NoneNum, Now - 86399, Now - 86400}, {NoneNum, 1000000, 1000001})

\* a pair alone, which may also be created in the future or about a week ago
LoneAgePairs ==
    AgePairsOf({NoneNum, Now + 60, Now - 86399, Now - 86400, Now - 604799, Now - 604800},
               {NoneNum, 0, 1000000, 1000001})

AgePairLists == SeqsUpTo(AgePairs, MaxPairs) \cup {<<p>> : p \in LoneAgePairs}

\* every lock with at most one pair, and every list of pairs with some locks
LiquidityCalls ==
    {[fn |-> "check_liquidity", pairs |-> ps, liquidity_lock |-> l] :
        ps \in {<<>>} \cup {<<p>> : p \in LiquidityPairs}, l \in LiquidityLocks}
    \cup {[fn |-> "check_liquidity", pairs |-> ps, liquidity_lock |-> l] :
            ps \in SeqsUpTo(LiquidityPairs, MaxPairs),
            l \in {PyNone, [is_locked |-> PyFalse],
                   [is_locked |-> PyTrue, locked_percentage |-> 80,
                    lock_duration_days |-> 30]}}

PumpFunInfos ==
    {PyNone} \cup
    {i @@ d @@ m :
        i \in Opt("is_pump_fun_token", Bools),
        d \in Opt("dev_holdings_percentage", {NoneNum, 0, 20, 21, 30}),
        m \in Opt("migration_status", {NoneStr, S_not_migrated, S_completed})}

DexPairs ==
    Opt("dex_id", {NoneStr, <<>>, S_raydium, S_Raydium, S_orca, S_pumpswap})

RugCheckDatas ==
    {PyNone} \cup
    {r @@ t :
        r \in Opt("risk_level", {NoneStr, <<>>, S_high, S_HIGH, S_medium, S_low}),
        t \in Opt("score", {5})}

RuleCalls ==
    {[fn |-> "check_authorities", token_meta |-> t] : t \in TokenMetas}
    \cup LiquidityCalls
    \cup {[fn |-> "check_tradeability", trading_info |-> t] : t \in TradingInfos}
    \cup {[fn |-> "check_concentration", holders |-> hs] : hs \in HolderLists}
    \cup {[fn |-> "check_age_hype", pairs |-> ps] : ps \in AgePairLists}
    \cup {[fn |-> "check_pump_fun", pump_fun_info |-> i] : i \in PumpFunInfos}
    \cup {[fn |-> "check_listings", pairs |-> ps] : ps \in SeqsUpTo(DexPairs, MaxDexs)}
    \cup {[fn |-> "check_rugcheck_override", rugcheck_data |-> r] : r \in RugCheckDatas}

RuleNames == {RN_Authorities, RN_Liquidity, RN_Tradeability, RN_Concentration,
              RN_AgeHype, RN_PumpFun, RN_Listings, RN_RugCheck}

\* a RiskNote as calculate_overall_score reads it
Note(rule_name, score) == [rule_name |-> rule_name, score |-> score]

SampleScores == {0, 43, 100}

CanonicalNames == <<RN_Authorities, RN_Liquidity, RN_Tradeability, RN_Concentration,
                    RN_AgeHype, RN_PumpFun, RN_Listings>>

\* the seven notes of a report, all of score s but the one at position k
SevenNotes(s, k, t) ==
    [i \in 1..Len(CanonicalNames) |-> Note(CanonicalNames[i], IF i = k THEN t ELSE s)]

NoteLists ==
    {<<>>}
    \cup {<<Note(n, sc)>> : n \in RuleNames, sc \in ScoreMin..ScoreMax}
    \cup (SeqsUpTo({Note(n, sc) : n \in RuleNames, sc \in {ScoreMin, ScoreMax}},
                    MaxNotes) \ {<<>>})
    \cup {SevenNotes(sc, k, t) :
            sc \in SampleScores, k \in 1..Len(CanonicalNames), t \in SampleScores}

ScoreCalls ==
    {[fn |-> "calculate_overall_score", notes |-> ns] : ns \in NoteLists}
    \cup {[fn |-> "get_risk_level", score |-> sc] : sc \in ScoreMin..ScoreMax}
    \cup {[fn |-> "get_verdict", score |-> sc] : sc \in ScoreMin..ScoreMax}

\* the records supplied to assess_token_risk: for each argument, values that
\* take the rules and the validation of the report through their outcomes
GoodPair ==
    [pair_address |-> S_addr, base_token |-> [address |-> S_addr],
     quote_token |-> [address |-> S_addr], liquidity_usd |-> 50000,
     dex_id |-> S_raydium, volume_24h_usd |-> 10000, pair_created_at |-> Now - 604800]

GoodHolder(balance) ==
    [address |-> S_addr, balance |-> balance, percentage |-> balance]

NewPair ==
    [GoodPair EXCEPT !.pair_created_at = Now - 86399, !.volume_24h_usd = 1000001,
                     !.liquidity_usd = 1999]

\* a pair without the fields the Pair model requires
BarePair == [dex_id |-> S_raydium, liquidity_usd |-> 50000]

RenouncedMeta ==
    [address |-> S_addr, is_mint_authority_renounced |-> PyTrue,
     is_freeze_authority_renounced |-> PyTrue]

MintableMeta ==
    [address |-> S_addr, mint_authority |-> S_addr, freeze_authority |-> S_addr]

LockedLock == [is_locked |-> PyTrue, locked_percentage |-> 80]

HoneypotInfo ==
    [can_sell |-> PyFalse, is_honeypot |-> PyTrue, sell_tax_percentage |-> 11]

PumpInfo ==
    [is_pump_fun_token |-> PyTrue, dev_holdings_percentage |-> 30,
     migration_status |-> S_not_migrated]

AssessCallsOf(T, P, H, L, TI, PF, R) ==
    {[fn |-> "assess_token_risk",
      a |-> [mint_address |-> S_addr, token_meta |-> t, pairs |-> ps, holders |-> hs,
             liquidity_lock |-> l, trading_info |-> ti, pump_fun_info |-> pf,
             rugcheck_data |-> r, data_sources_used |-> NoneNames,
             warnings |-> NoneNames]] :
        t \in T, ps \in P, hs \in H, l \in L, ti \in TI, pf \in PF, r \in R}

\* records that carry what the models require, in every combination
WellFormedCalls ==
    AssessCallsOf({PyNone, RenouncedMeta, MintableMeta},
                  {NoneList, <<GoodPair>>, <<GoodPair, [GoodPair EXCEPT !.dex_id = S_orca]>>,
                   <<NewPair>>},
                  {<<>>, <<GoodHolder(9), GoodHolder(1)>>, <<GoodHolder(1), GoodHolder(9)>>},
                  {PyNone, LockedLock, [is_locked |-> PyFalse]},
                  {PyNone, [can_buy |-> PyTrue, can_sell |-> PyTrue], HoneypotInfo},
                  {PyNone, PumpInfo},
                  {PyNone, <<>>, [risk_level |-> S_high], [risk_level |-> S_medium]})

\* records that are empty, lack fields or hold None in them
SparseCalls ==
    AssessCallsOf({PyNone, <<>>, [mint_authority |-> S_addr]},
                  {<<>>, <<GoodPair>>, <<[GoodPair EXCEPT !.dex_id = NoneStr]>>,
                   <<BarePair>>},
                  {NoneList, <<GoodHolder(5)>>,
                   <<[GoodHolder(5) EXCEPT !.balance = NoneNum]>>, <<[balance |-> 5]>>},
                  {PyNone, [is_locked |-> NoneBool]},
                  {PyNone, [can_sell |-> NoneBool]},
                  {PyNone, [is_pump_fun_token |-> PyFalse]},
                  {PyNone, [risk_level |-> S_high], [risk_level |-> NoneStr],
                   [score |-> 5]})

\* a pair with $50,000 of liquidity on the DEX, a week or a day old
ListedPair(dex_id, young) ==
    IF young THEN [GoodPair EXCEPT !.dex_id = dex_id, !.pair_created_at = Now - 86399,
                                   !.volume_24h_usd = 1000001]
    ELSE [GoodPair EXCEPT !.dex_id = dex_id]

\* healthy tokens: authorities renounced, liquidity locked at 80%, trading
\* without taxes, holders of equal balance, pairs on three major DEXs
HealthyCalls ==
    AssessCallsOf({RenouncedMeta},
                  {<<ListedPair(S_raydium, y), ListedPair(S_orca, y),
                     ListedPair(S_jupiter, y)>> : y \in BOOLEAN},
                  {<<GoodHolder(5), GoodHolder(5)>>, Repeat(<<GoodHolder(1)>>, 20)},
                  {[is_locked |-> PyTrue, locked_percentage |-> 80,
                    lock_duration_days |-> d] : d \in {1, 30}},
                  {[can_buy |-> PyTrue, can_sell |-> PyTrue, is_honeypot |-> PyFalse,
                    sell_tax_percentage |-> 0, buy_tax_percentage |-> 0]},
                  {PyNone, PumpInfo, [is_pump_fun_token |-> PyFalse]},
                  {PyNone})

\* calls that hand over the names of the sources used and the warnings; the
\* dicts may hold keys that the models do not declare
SourcedCalls ==
    {[c EXCEPT !.a.data_sources_used = s, !.a.warnings = w] :
        c \in AssessCallsOf({PyNone, RenouncedMeta @@ [symbol |-> S_addr, holders |-> 2]},
                            {<<>>, <<GoodPair @@ [labels |-> <<>>]>>},
                            {<<>>, <<GoodHolder(9) @@ [owner |-> S_addr],
                                     GoodHolder(1)>>},
                            {PyNone}, {PyNone, [can_sell |-> PyTrue]}, {PyNone},
                            {PyNone}),
        s \in {<<>>, <<"solana_chain", "dexscreener">>, <<"dexscreener", "solana_chain">>},
        w \in {<<>>, <<"RugCheck failed: e", "Birdeye failed: e">>,
               <<"Birdeye failed: e", "RugCheck failed: e">>}}

AssessCalls == WellFormedCalls \cup SparseCalls \cup HealthyCalls \cup SourcedCalls

(***************************************************************************)
(* The inputs of the pipelines: a mint address, the providers enabled and  *)
(* what every upstream request gives.                                      *)
(***************************************************************************)
\* addresses of 43 and 44 characters, and one of 43 that ends in "pump"
PlainMint == [i \in 1..(AddressLength - 1) |-> "1"]
LongMint  == [i \in 1..AddressLength |-> "1"]
PumpMint  == [i \in 1..(AddressLength - 5) |-> "1"] \o S_pump
Mints     == {PlainMint, LongMint, PumpMint}

TimedOut == Failure(<<"Request timeout after 3 retries">>)

\* a pair of the DEX Screener API, a week old
ApiPair ==
    [pairAddress |-> S_addr, baseToken |-> [address |-> S_addr, symbol |-> S_addr],
     quoteToken |-> [address |-> S_addr], liquidity |-> [usd |-> 50000],
     volume |-> [h24 |-> 10000], pairCreatedAt |-> (Now - 604800) * 1000,
     dexId |-> S_raydium, url |-> S_addr]

\* the request fails, gives a pair, or gives "pairs": null
DexScreenerResponses ==
    [fails |-> TimedOut, good |-> Success([pairs |-> <<ApiPair>>]),
     raises |-> Success([pairs |-> NoneList])]

\* an empty body, no pairs, a pair that cannot be parsed next to one that can
DexScreenerOthers ==
    {Success(<<>>), Success([pairs |-> <<>>]),
     Success([pairs |-> <<[ApiPair EXCEPT !.liquidity = [usd |-> NoneNum]],
                          [ApiPair EXCEPT !.pairCreatedAt = (Now - 3600) * 1000,
                                          !.dexId = S_orca]>>])}

ApiPool ==
    [address |-> S_addr, baseToken |-> [address |-> S_addr],
     quoteToken |-> [address |-> S_addr], liquidity |-> [usd |-> 3000],
     volume24h |-> 500, dexId |-> S_orca]

BirdeyeOf(data, pools) ==
    [overview |-> data, price |-> data, pools |-> pools, metadata |-> data]

\* every request fails, every request succeeds, or the pools are "data": null
BirdeyeResponses ==
    [fails  |-> BirdeyeOf(TimedOut, TimedOut),
     good   |-> BirdeyeOf(Success([data |-> [symbol |-> S_addr]]),
                          Success([data |-> [items |-> <<ApiPool>>]])),
     raises |-> BirdeyeOf(Success([data |-> [symbol |-> S_addr]]),
                          Success([data |-> PyNone]))]

\* the overview alone succeeds; a pool whose liquidity is null; "items": null
BirdeyeOthers ==
    {[BirdeyeOf(TimedOut, TimedOut) EXCEPT !.overview = Success([data |-> [symbol |-> S_addr]])],
     BirdeyeOf(TimedOut, Success([data |-> [items |-> <<[ApiPool EXCEPT !.liquidity = PyNone]>>]])),
     BirdeyeOf(TimedOut, Success([data |-> [items |-> NoneList]]))}

RugCheckOf(summary, analysis) ==
    [risk_summary |-> summary, analysis |-> analysis, holder_analysis |-> analysis,
     liquidity_analysis |-> analysis]

\* every request fails, or the risk summary has the level
RugCheckResponses ==
    [fails  |-> RugCheckOf(TimedOut, TimedOut),
     high   |-> RugCheckOf(Success([risk_level |-> S_high]), Success([score |-> 5])),
     medium |-> RugCheckOf(Success([risk_level |-> S_medium]), TimedOut)]

RugCheckOthers ==
    {RugCheckOf(Success(<<>>), TimedOut), RugCheckOf(Success([risk_level |-> S_low]), TimedOut),
     RugCheckOf(Success([risk_level |-> S_HIGH]), TimedOut)}

PumpFunResponses ==
    [fails |-> [moralis |-> TimedOut, bitquery |-> TimedOut],
     good  |-> [moralis |-> Success([mint |-> S_addr]),
                bitquery |-> Success([data |-> <<>>])]]

Account(amount) == [pubkey |-> S_addr, owner |-> S_addr, amount |-> amount]

SolanaOf(mint_info, supply, accounts) ==
    [mint_info |-> mint_info, supply |-> supply, accounts |-> accounts]

SupplyOf(amount) == Success([result |-> [value |-> [amount |-> amount]]])

AccountsOf(amounts) ==
    Success([result |-> [value |-> [i \in 1..Len(amounts) |-> Account(amounts[i])]]])

\* every request fails, every request succeeds, or the supply is no number
SolanaChainResponses ==
    [fails  |-> SolanaOf(TimedOut, TimedOut, TimedOut),
     good   |-> SolanaOf(Success([result |-> [value |-> [owner |-> S_addr]]]),
                         SupplyOf(100), AccountsOf(<<5, 0, 20>>)),
     raises |-> SolanaOf(TimedOut, SupplyOf(NotANumber), TimedOut)]

\* holders without a supply; an RPC error; an amount that is no number or None
SolanaChainOthers ==
    {SolanaOf(TimedOut, TimedOut, AccountsOf(<<5, 20>>)),
     SolanaOf(Success([error |-> [code |-> 5]]), Success([error |-> [code |-> 5]]),
              AccountsOf(<<60, 1>>)),
     SolanaOf(TimedOut, SupplyOf(100), AccountsOf(<<5, NotANumber>>)),
     SolanaOf(TimedOut, SupplyOf(NoneNum), AccountsOf(<<NoneNum, 7>>))}

Env(d, b, jwt, r, keys, p, s) ==
    [dexscreener |-> d, birdeye |-> b, jwt_token |-> jwt, rugcheck |-> r,
     keys |-> [moralis |-> keys, bitquery |-> keys], pumpfun |-> p,
     solana_chain |-> s]

\* every provider in one of its cases, with the keys or without
Envs ==
    {Env(DexScreenerResponses[d], BirdeyeResponses[b], jwt, RugCheckResponses[r],
         jwt, PumpFunResponses[p], SolanaChainResponses[s]) :
        d \in DOMAIN DexScreenerResponses, b \in DOMAIN BirdeyeResponses,
        jwt \in BOOLEAN, r \in DOMAIN RugCheckResponses,
        p \in DOMAIN PumpFunResponses, s \in DOMAIN SolanaChainResponses}

EnvOfAll(case) ==
    Env(DexScreenerResponses[case], BirdeyeResponses[case], TRUE,
        RugCheckResponses.fails, TRUE, PumpFunResponses.fails,
        SolanaChainResponses[case])

\* one provider in another of its cases, the others failing or giving data
OtherEnvs ==
    UNION {{[base EXCEPT !.dexscreener = d] : d \in DexScreenerOthers}
           \cup {[base EXCEPT !.birdeye = b] : b \in BirdeyeOthers}
           \cup {[base EXCEPT !.rugcheck = r] : r \in RugCheckOthers}
           \cup {[base EXCEPT !.keys.bitquery = FALSE],
                 [base EXCEPT !.keys.moralis = FALSE]}
           \cup {[base EXCEPT !.solana_chain = s] : s \in SolanaChainOthers} :
           base \in {EnvOfAll("fails"),
                     Env(DexScreenerResponses.good, BirdeyeResponses.good, TRUE,
                         RugCheckResponses.high, TRUE, PumpFunResponses.good,
                         SolanaChainResponses.good)}}

PipelineCallsOf(M, P, E) ==
    {[fn |-> fn, mint |-> mint, providers |-> providers, env |-> env] :
        fn \in {"fetch_all_data", "run_analysis"}, mint \in M, providers \in P,
        env \in E}

PipelineCalls ==
    PipelineCallsOf({PlainMint}, SUBSET Providers,
                    {EnvOfAll("fails"), EnvOfAll("good"), EnvOfAll("raises")})
    \cup PipelineCallsOf(Mints, {Providers}, Envs)
    \cup PipelineCallsOf({LongMint}, {Providers}, OtherEnvs)

(***************************************************************************)
(* The state: a call, its position (pc), what it returned or raised (ret),  *)
(* the functions it invoked, in order (calls), and the local variables of  *)
(* a handler that runs in several steps (local).                           *)
(***************************************************************************)
VARIABLES pc, call, ret, calls, local

vars == <<pc, call, ret, calls, local>>

Finish(result, invoked) ==
    /\ pc' = "done"
    /\ ret' = result
    /\ calls' = invoked
    /\ UNCHANGED <<call, local>>

Calling(fn) == pc = "call" /\ call.fn = fn

CheckAuthorities ==
    /\ Calling("check_authorities")
    /\ Finish(check_authorities(call.token_meta), <<call.fn>>)

CheckLiquidity ==
    /\ Calling("check_liquidity")
    /\ Finish(check_liquidity(call.pairs, call.liquidity_lock), <<call.fn>>)

CheckTradeability ==
    /\ Calling("check_tradeability")
    /\ Finish(check_tradeability(call.trading_info), <<call.fn>>)

CheckConcentration ==
    /\ Calling("check_concentration")
    /\ Finish(check_concentration(call.holders), <<call.fn>>)

CheckAgeHype ==
    /\ Calling("check_age_hype")
    /\ \E tick \in 0..MaxTick :
          Finish(check_age_hype(call.pairs, Now, Now + tick), <<call.fn>>)

CheckPumpFun ==
    /\ Calling("check_pump_fun")
    /\ Finish(check_pump_fun(call.pump_fun_info), <<call.fn>>)

CheckListings ==
    /\ Calling("check_listings")
    /\ Finish(check_listings(call.pairs), <<call.fn>>)

CheckRugcheckOverride ==
    /\ Calling("check_rugcheck_override")
    /\ Finish(check_rugcheck_override(call.rugcheck_data), <<call.fn>>)

InitRules == pc = "call" /\ call \in RuleCalls /\ ret = <<>> /\ calls = <<>>
    /\ local = <<>>

NextRules ==
    \/ CheckAuthorities
    \/ CheckLiquidity
    \/ CheckTradeability
    \/ CheckConcentration
    \/ CheckAgeHype
    \/ CheckPumpFun
    \/ CheckListings
    \/ CheckRugcheckOverride

SpecRules == InitRules /\ [][NextRules]_vars

CalculateOverallScore ==
    /\ Calling("calculate_overall_score")
    /\ Finish(Ret(calculate_overall_score(call.notes)), <<>>)

GetRiskLevel ==
    /\ Calling("get_risk_level")
    /\ Finish(Ret(get_risk_level(call.score)), <<>>)

GetVerdict ==
    /\ Calling("get_verdict")
    /\ Finish(Ret(get_verdict(call.score)), <<>>)

InitScore == pc = "call" /\ call \in ScoreCalls /\ ret = <<>> /\ calls = <<>>
    /\ local = <<>>

NextScore == CalculateOverallScore \/ GetRiskLevel \/ GetVerdict

SpecScore == InitScore /\ [][NextScore]_vars

AssessTokenRisk ==
    /\ Calling("assess_token_risk")
    /\ \E tick \in 0..MaxTick :
          \E r \in {assess_token_risk(call.a, Now, Now + tick)} :
              Finish(r.ret, r.calls)

Init == pc = "call" /\ call \in AssessCalls /\ ret = <<>> /\ calls = <<>>
    /\ local = <<>>

Next == AssessTokenRisk

Spec == Init /\ [][Next]_vars

(***************************************************************************)
(* The claims.                                                             *)
(***************************************************************************)
Returned(fn) == pc = "done" /\ call.fn = fn /\ ~ret.raised

\* C1: calculate_overall_score returns an integer from 0 to 100 for every
\* non-empty list of notes whose scores are from 0 to 100, and exactly 50 for
\* the empty list.
C1_OverallScoreInRange ==
    pc = "done" /\ call.fn = "calculate_overall_score"
    => /\ ~ret.raised
       /\ ret.value \in 0..100
       /\ call.notes = <<>> => ret.value = 50

\* a list of two notes scored 100 gives 100
C1_Witness ==
    /\ Returned("calculate_overall_score")
    /\ Len(call.notes) = 2
    /\ \A i \in 1..2 : call.notes[i].score = 100
    /\ ret.value = 100

\* the tiers as the specification states them
TierOf(score) == IF score <= 29 THEN 1 ELSE IF score <= 59 THEN 2 ELSE 3
LevelOfTier == <<"safe", "caution", "high_risk">>
VerdictOfTier == <<"Likely OK (still DYOR)", "Caution", "High Risk / Avoid">>

\* C2: get_risk_level and get_verdict map a score of at most 29 to safe and
\* "Likely OK (still DYOR)", 30 to 59 to caution and "Caution", 60 and above
\* to high_risk and "High Risk / Avoid": for one score both give the same tier.
C2_SameTier ==
    /\ Returned("get_risk_level")
       => /\ ret.value = LevelOfTier[TierOf(call.score)]
          /\ get_verdict(call.score) = VerdictOfTier[TierOf(call.score)]
    /\ Returned("get_verdict")
       => /\ ret.value = VerdictOfTier[TierOf(call.score)]
          /\ get_risk_level(call.score) = LevelOfTier[TierOf(call.score)]

\* the boundary score 29 is safe
C2_Witness == Returned("get_risk_level") /\ call.score = 29 /\ ret.value = "safe"

\* the weight the specification gives each rule name, in hundredths
DocumentedWeight(rule_name) ==
    IF rule_name = RN_Authorities THEN 20
    ELSE IF rule_name = RN_Liquidity THEN 25
    ELSE IF rule_name = RN_Tradeability THEN 20
    ELSE IF rule_name = RN_Concentration THEN 15
    ELSE IF rule_name = RN_AgeHype THEN 10
    ELSE IF rule_name = RN_PumpFun THEN 5
    ELSE IF rule_name = RN_Listings THEN 5
    ELSE 10

\* C3: the weight of a note is fixed by its rule name: Authorities 0.20,
\* Liquidity 0.25, Tradeability 0.20, Concentration 0.15, Age/Hype 0.10,
\* Pump.fun 0.05, Listings 0.05 and 0.10 for any other name.
C3_DocumentedWeights ==
    Returned("calculate_overall_score")
    => \A i \in 1..Len(call.notes) :
          WeightOf(call.notes[i].rule_name) = W(DocumentedWeight(call.notes[i].rule_name))

\* the names of the notes of the report returned
NoteNames == [i \in 1..Len(ret.value.notes) |-> ret.value.notes[i].rule_name]

\* the call carries RugCheck data: a dict that is not empty
RugCheckSupplied == TruthyDict(call.a.rugcheck_data)

\* C4: a report of a call without RugCheck data (None or an empty dict) has
\* exactly the seven canonical notes, none of them named RugCheck, and its
\* overall_score is the composite of those seven; a report of a call with
\* RugCheck data has eight notes, exactly one of them named RugCheck.
C4_RugCheckNoteOnlyWithData ==
    Returned("assess_token_risk")
    => IF RugCheckSupplied
       THEN /\ Len(NoteNames) = 8
            /\ Cardinality({i \in 1..8 : NoteNames[i] = RN_RugCheck}) = 1
            /\ SubSeq(NoteNames, 1, 7) = CanonicalNames
       ELSE /\ NoteNames = CanonicalNames
            /\ \A i \in 1..Len(NoteNames) : NoteNames[i] # RN_RugCheck
            /\ ret.value.overall_score
                   = calculate_overall_score(SubSeq(ret.value.notes, 1, 7))

\* a report of a call with a high RugCheck level: eight notes, the last RugCheck
C4_Witness ==
    /\ Returned("assess_token_risk") /\ RugCheckSupplied
    /\ Len(ret.value.notes) = 8
    /\ ret.value.notes[8].rule_name = RN_RugCheck
    /\ ret.value.notes[8].score = 20

\* C5: assess_token_risk never raises: whatever fields its inputs carry, it
\* returns a RiskReport with every field populated and overall_score in 0..100.
C5_NeverFails ==
    pc = "done" /\ call.fn = "assess_token_risk"
    => /\ ~ret.raised
       /\ ret.value.mint_address = call.a.mint_address
       /\ ret.value.overall_score \in 0..100
       /\ ret.value.risk_level \in RiskLevels
       /\ Len(ret.value.notes) >= 7

\* C8: the notes of a report are in the canonical order, RugCheck last if
\* present; every call invokes each of the seven rules exactly once, in that
\* order, and the RugCheck rule once if its data is present and never otherwise.
C8_EachRuleOnceInOrder ==
    pc = "done" /\ call.fn = "assess_token_risk"
    => /\ calls = IF RugCheckSupplied THEN RuleOrder ELSE SubSeq(RuleOrder, 1, 7)
       /\ ~ret.raised
          => NoteNames = IF RugCheckSupplied THEN CanonicalNames \o <<RN_RugCheck>>
                         ELSE CanonicalNames

RuleFns == {RuleOrder[i] : i \in 1..Len(RuleOrder)}

\* C6: every rule function returns one RiskNote with a score from 0 to 100 and
\* a severity of low, medium or high, and never raises, whatever fields of its
\* input are absent or None.
C6_RulesNeverRaise ==
    pc = "done" /\ call.fn \in RuleFns
    => /\ ~ret.raised
       /\ ret.value.score \in 0..100
       /\ ret.value.severity \in {"low", "medium", "high"}

\* the list in the order p
Permuted(list, p) == [i \in 1..Len(list) |-> list[p[i]]]

ScoreAndSeverity(result) == <<result.value.score, result.value.severity>>

\* C7: check_concentration returns the same score and severity for every
\* permutation of the same holder list.
C7_PermutationInvariant ==
    Returned("check_concentration") /\ Len(call.holders) <= MaxHolders
    => \A p \in Permutations(1..Len(call.holders)) :
          ScoreAndSeverity(check_concentration(Permuted(call.holders, p)))
              = ScoreAndSeverity(ret)

\* the classification of a score by thresholds, as the specification states it
Classify(score, hi, med) ==
    IF score >= hi THEN "high" ELSE IF score >= med THEN "medium" ELSE "low"

\* the thresholds <<high, medium>> the specification gives each rule
Thresholds(fn) ==
    IF fn \in {"check_age_hype", "check_pump_fun"} THEN <<20, 10>>
    ELSE IF fn = "check_listings" THEN <<15, 5>>
    ELSE <<30, 15>>

ThresholdRuleFns == RuleFns \ {"check_rugcheck_override"}

SeverityByThresholds ==
    ret.value.severity
        = Classify(ret.value.score, Thresholds(call.fn)[1], Thresholds(call.fn)[2])

\* C9, as stated: the severity of every note a rule produces, the notes of the
\* no-data branches included, is the classification of its score by the
\* thresholds of the rule.
C9_SeverityByThresholds ==
    pc = "done" /\ call.fn \in ThresholdRuleFns /\ ~ret.raised => SeverityByThresholds

\* the call takes the no-data branch of its rule
NoData ==
    \/ call.fn = "check_authorities" /\ ~TruthyDict(call.token_meta)
    \/ call.fn \in {"check_liquidity", "check_age_hype", "check_listings"}
       /\ call.pairs = <<>>
    \/ call.fn = "check_tradeability" /\ ~TruthyDict(call.trading_info)
    \/ call.fn = "check_concentration" /\ call.holders = <<>>
    \/ call.fn = "check_pump_fun" /\ ~TruthyDict(call.pump_fun_info)

\* the score and the severity of the no-data note of each rule
NoDataNote(fn) ==
    IF fn = "check_authorities" THEN <<10, "medium">>
    ELSE IF fn = "check_liquidity" THEN <<25, "high">>
    ELSE IF fn = "check_tradeability" THEN <<15, "medium">>
    ELSE IF fn = "check_concentration" THEN <<20, "medium">>
    ELSE IF fn = "check_age_hype" THEN <<10, "low">>
    ELSE IF fn = "check_pump_fun" THEN <<0, "low">>
    ELSE <<20, "medium">>

\* C9, amended: the severity of a note a rule computes from data is the
\* classification of its score by the thresholds of the rule; the no-data
\* note of a rule has the fixed score and severity of the rule's table entry.
C9_SeverityByThresholdsWithData ==
    pc = "done" /\ call.fn \in ThresholdRuleFns /\ ~ret.raised
    => IF NoData THEN ScoreAndSeverity(ret) = NoDataNote(call.fn)
       ELSE SeverityByThresholds

\* a freeze authority alone scores 15, which is medium
C9_Witness ==
    /\ Returned("check_authorities") /\ ~NoData
    /\ ScoreAndSeverity(ret) = <<15, "medium">>

\* what a call of a rule gives when the second reading of the clock is tick later
RuleResult(c, tick) ==
    IF c.fn = "check_authorities" THEN check_authorities(c.token_meta)
    ELSE IF c.fn = "check_liquidity" THEN check_liquidity(c.pairs, c.liquidity_lock)
    ELSE IF c.fn = "check_tradeability" THEN check_tradeability(c.trading_info)
    ELSE IF c.fn = "check_concentration" THEN check_concentration(c.holders)
    ELSE IF c.fn = "check_age_hype" THEN check_age_hype(c.pairs, Now, Now + tick)
    ELSE IF c.fn = "check_pump_fun" THEN check_pump_fun(c.pump_fun_info)
    ELSE IF c.fn = "check_listings" THEN check_listings(c.pairs)
    ELSE check_rugcheck_override(c.rugcheck_data)

\* the <<score, severity>> of the notes each rule produces over its inputs
ProducibleNotes ==
    [fn \in RuleFns |->
        {ScoreAndSeverity(r) :
            r \in {x \in {RuleResult(c, tick) :
                            c \in {d \in RuleCalls : d.fn = fn}, tick \in 0..MaxTick} :
                     ~x.raised}}]

SeverityRank(severity) ==
    IF severity = "low" THEN 1 ELSE IF severity = "medium" THEN 2 ELSE 3

\* C10: of two notes the same rule can produce, the one of strictly higher
\* score has the same or a higher severity.
C10_SeverityMonotone ==
    pc = "done" /\ call.fn \in RuleFns /\ ~ret.raised
    => \A n \in ProducibleNotes[call.fn] :
          /\ n[1] > ret.value.score
             => SeverityRank(n[2]) >= SeverityRank(ret.value.severity)
          /\ n[1] < ret.value.score
             => SeverityRank(n[2]) <= SeverityRank(ret.value.severity)

\* no pairs gives Liquidity 25 and high, while 35 of a rule with data is high too
C10_Witness ==
    /\ Returned("check_liquidity") /\ call.pairs = <<>>
    /\ ScoreAndSeverity(ret) = <<25, "high">>
    /\ <<35, "high">> \in ProducibleNotes["check_liquidity"]
    /\ <<25, "medium">> \in ProducibleNotes["check_liquidity"]

\* the dict carries an address under the key
AddressPresent(d, k) == k \in DOMAIN d /\ d[k] # NoneStr /\ d[k] # <<>>

\* the dict flags the authority as renounced
Renounced(d, k) == k \in DOMAIN d /\ d[k] = PyTrue

\* the note that the rule returned
NoteIs(score, severity) ==
    ret.value.score = score /\ ret.value.severity = severity

\* what the Authorities note is to be, given which of the two penalties apply
AuthoritiesNoteFor(mint, freeze) ==
    /\ ret.value.score = (IF mint THEN 25 ELSE 0) + (IF freeze THEN 15 ELSE 0)
    /\ ~mint /\ ~freeze
       => /\ ret.value.message = <<"Authorities properly renounced">>
          /\ ret.value.severity = "low"
    /\ mint /\ freeze => NoteIs(40, "high")

\* C11, as stated: with metadata check_authorities scores 25 for a mint
\* authority address that is present and not renounced plus 15 for a freeze
\* authority address that is present, 0 with 'Authorities properly renounced'
\* and low when neither applies, 40 and high when both do; without metadata
\* it scores 10.
C11_AuthoritiesScore ==
    Returned("check_authorities")
    => IF ~TruthyDict(call.token_meta) THEN ret.value.score = 10
       ELSE AuthoritiesNoteFor(
                /\ AddressPresent(call.token_meta, "mint_authority")
                /\ ~Renounced(call.token_meta, "is_mint_authority_renounced"),
                AddressPresent(call.token_meta, "freeze_authority"))

\* C11, amended: the 15 of the freeze authority is given when its address is
\* present and the authority is not flagged as renounced, as for the mint
\* authority.
C11_AuthoritiesScoreNotRenounced ==
    Returned("check_authorities")
    => IF ~TruthyDict(call.token_meta) THEN ret.value.score = 10
       ELSE AuthoritiesNoteFor(
                /\ AddressPresent(call.token_meta, "mint_authority")
                /\ ~Renounced(call.token_meta, "is_mint_authority_renounced"),
                /\ AddressPresent(call.token_meta, "freeze_authority")
                /\ ~Renounced(call.token_meta, "is_freeze_authority_renounced"))

\* a freeze authority address flagged as renounced adds nothing
C11_Witness ==
    /\ Returned("check_authorities")
    /\ AddressPresent(call.token_meta, "freeze_authority")
    /\ Renounced(call.token_meta, "is_freeze_authority_renounced")
    /\ AddressPresent(call.token_meta, "mint_authority")
    /\ ~Renounced(call.token_meta, "is_mint_authority_renounced")
    /\ NoteIs(25, "medium")

\* the number under the key, 0 when the key is absent or holds None
NumberOr0(d, k) == IF k \in DOMAIN d /\ d[k] # NoneNum THEN d[k] ELSE 0

\* the largest liquidity_usd of the pairs
MaxUsdLiquidity(pairs) ==
    LET usd == {NumberOr0(pairs[i], "liquidity_usd") : i \in 1..Len(pairs)} \cup {0}
    IN  CHOOSE m \in usd : \A v \in usd : v <= m

\* the key holds a number that is below the limit
NumberBelow(d, k, limit) == k \in DOMAIN d /\ d[k] # NoneNum /\ d[k] < limit

LiquidityPenalty(pairs) ==
    IF MaxUsdLiquidity(pairs) < 2000 THEN 25
    ELSE IF MaxUsdLiquidity(pairs) < 10000 THEN 10 ELSE 0

LockPenalty(lock) ==
    IF ~TruthyDict(lock) THEN 10
    ELSE IF ~("is_locked" \in DOMAIN lock /\ lock.is_locked = PyTrue) THEN 20
    ELSE IF NumberBelow(lock, "locked_percentage", 60) THEN 15
    ELSE IF NumberBelow(lock, "lock_duration_days", 7) THEN 10
    ELSE 0

\* C12: check_liquidity returns 25 and high for no pairs; otherwise it scores
\* L + K, L being 25 for a maximum liquidity below 2,000, 10 below 10,000 and
\* 0 otherwise, K being 10 without a lock, 20 for a lock that is not locked,
\* 15 for one locked at a percentage below 60, 10 for one locked for fewer
\* than 7 days and 0 otherwise.
C12_LiquidityScore ==
    Returned("check_liquidity")
    => IF call.pairs = <<>> THEN NoteIs(25, "high")
       ELSE ret.value.score
                = LiquidityPenalty(call.pairs) + LockPenalty(call.liquidity_lock)

\* the key holds a number that is above the limit
NumberAbove(d, k, limit) == k \in DOMAIN d /\ d[k] # NoneNum /\ d[k] > limit

\* selling is not possible: can_sell is there and is not True
CannotSell(info) == "can_sell" \in DOMAIN info /\ info.can_sell # PyTrue

HoneypotFlag(info) == "is_honeypot" \in DOMAIN info /\ info.is_honeypot = PyTrue

\* the penalties of the trading info, summed
TradeabilityPenalties(info) ==
    (IF CannotSell(info) THEN 35 ELSE 0)
    + (IF NumberAbove(info, "sell_tax_percentage", 10) THEN 35
       ELSE IF NumberAbove(info, "sell_tax_percentage", 5) THEN 15 ELSE 0)
    + (IF NumberAbove(info, "buy_tax_percentage", 10) THEN 15 ELSE 0)
    + (IF HoneypotFlag(info) THEN 35 ELSE 0)

\* C13: with trading info check_tradeability scores the sum, clamped once to
\* 100, of 35 when selling is not possible (can_sell False or None), 35 for a
\* sell tax above 10 or else 15 for one above 5, 15 for a buy tax above 10 and
\* 35 for the honeypot flag, so cannot-sell with the honeypot flag and no
\* taxes is 70 and high; without trading info the note is 15 and medium.
C13_TradeabilityScore ==
    Returned("check_tradeability")
    => IF ~TruthyDict(call.trading_info) THEN NoteIs(15, "medium")
       ELSE /\ ret.value.score = Min(100, TradeabilityPenalties(call.trading_info))
            /\ TradeabilityPenalties(call.trading_info) = 70 => NoteIs(70, "high")

\* all four penalties come to 120, which is clamped to 100
C13_Witness ==
    /\ Returned("check_tradeability") /\ TruthyDict(call.trading_info)
    /\ CannotSell(call.trading_info) /\ HoneypotFlag(call.trading_info)
    /\ TradeabilityPenalties(call.trading_info) = 120
    /\ NoteIs(100, "high")

\* the balance of a holder, 0 when it has none
BalanceOf(holder) == NumberOr0(holder, "balance")

\* the balances of the first n holders, summed
RECURSIVE BalanceFromTo(_, _, _)
BalanceFromTo(holders, i, j) ==
    IF i > j THEN 0
    ELSE IF i = j THEN BalanceOf(holders[i])
    ELSE BalanceFromTo(holders, i, (i + j) \div 2)
         + BalanceFromTo(holders, (i + j) \div 2 + 1, j)

BalanceOfFirst(holders, n) == BalanceFromTo(holders, 1, n)

SortedByBalance(holders) ==
    \A i \in 1..(Len(holders) - 1) : BalanceOf(holders[i]) >= BalanceOf(holders[i + 1])

\* the share of the first n holders in the total is above the percentage
ShareAbove(holders, n, percentage) ==
    BalanceOfFirst(holders, n) * 100 > percentage * BalanceOfFirst(holders, Len(holders))

\* the score of a holder list by the shares of its top groups
ConcentrationScore(holders) ==
    LET n     == Len(holders)
        top1  == IF n \div 100 > 1 THEN n \div 100 ELSE 1
        top10 == IF n \div 10 > 1 THEN n \div 10 ELSE 1
    IN  (IF ShareAbove(holders, top10, 70) THEN 30
         ELSE IF ShareAbove(holders, top10, 50) THEN 15 ELSE 0)
        + (IF ShareAbove(holders, top1, 30) THEN 25
           ELSE IF ShareAbove(holders, top1, 20) THEN 10 ELSE 0)

\* C14: for holders sorted by balance, largest first, of positive total
\* balance, check_concentration scores 30 for a top-10% share above 70 or else
\* 15 for one above 50, plus 25 for a top-1% share above 30 or else 10 for one
\* above 20, the groups being the first max(1, n div 10) and max(1, n div 100)
\* holders; for no holders it returns 20 and medium.
C14_ConcentrationScore ==
    Returned("check_concentration")
    => IF call.holders = <<>> THEN NoteIs(20, "medium")
       ELSE SortedByBalance(call.holders)
            /\ BalanceOfFirst(call.holders, Len(call.holders)) > 0
            => ret.value.score = ConcentrationScore(call.holders)

\* twenty holders of balances 30, 9, 1, ..., 1: the first holds 52.6% and the
\* first two hold 68.4%, which is 25 + 15
C14_Witness ==
    /\ Returned("check_concentration")
    /\ Len(call.holders) = 20 /\ SortedByBalance(call.holders)
    /\ BalanceOf(call.holders[1]) = 30 /\ BalanceOf(call.holders[2]) = 9
    /\ NoteIs(40, "high")

\* the creation times that the pairs carry
CreationTimes(pairs) ==
    {pairs[i].pair_created_at :
        i \in {j \in 1..Len(pairs) : /\ "pair_created_at" \in DOMAIN pairs[j]
                                     /\ pairs[j].pair_created_at # NoneNum}}

\* the earliest pair was created less than 24 hours before the call
YoungerThanADay(pairs) == \E t \in CreationTimes(pairs) :
    /\ \A u \in CreationTimes(pairs) : t <= u
    /\ Now - t < 24 * 60 * 60

HighVolume(pairs) ==
    \E i \in 1..Len(pairs) : NumberAbove(pairs[i], "volume_24h_usd", 1000000)

\* C15: check_age_hype returns 10 and low for no pairs; otherwise it scores 10
\* when the earliest creation time of the pairs is less than 24 hours before
\* the call, and 10 more when in addition a pair has a 24h volume above
\* 1,000,000: the score is 0, 10 or 20, the volume alone adds nothing, and
\* pairs without a creation time score 0.
C15_AgeHypeScore ==
    Returned("check_age_hype")
    => IF call.pairs = <<>> THEN NoteIs(10, "low")
       ELSE /\ ret.value.score
                  = (IF YoungerThanADay(call.pairs) THEN 10 ELSE 0)
                    + (IF YoungerThanADay(call.pairs) /\ HighVolume(call.pairs)
                       THEN 10 ELSE 0)
            /\ ret.value.score \in {0, 10, 20}
            /\ CreationTimes(call.pairs) = {} => ret.value.score = 0

\* the info says that the token is a Pump.fun token
IsPumpFunToken(info) ==
    /\ TruthyDict(info)
    /\ "is_pump_fun_token" \in DOMAIN info /\ info.is_pump_fun_token = PyTrue

NotMigrated(info) ==
    "migration_status" \in DOMAIN info /\ info.migration_status = S_not_migrated

PumpFunScore(info) ==
    (IF NumberAbove(info, "dev_holdings_percentage", 20) THEN 20 ELSE 0)
    + (IF NotMigrated(info) THEN 10 ELSE 0)

\* C16: check_pump_fun returns 0, low and 'Not a Pump.fun token' without info
\* or when is_pump_fun_token is not true; otherwise it scores 20 for dev
\* holdings above 20% plus 10 for the migration status 'not_migrated', with
\* severity high from 20 and medium from 10.
C16_PumpFunScore ==
    Returned("check_pump_fun")
    => IF ~IsPumpFunToken(call.pump_fun_info)
       THEN /\ NoteIs(0, "low")
            /\ ret.value.message = <<"Not a Pump.fun token">>
       ELSE /\ ret.value.score = PumpFunScore(call.pump_fun_info)
            /\ ret.value.severity = Classify(ret.value.score, 20, 10)

\* dev holdings of exactly 20% add nothing: with the migration pending the
\* note is 10 and medium
C16_Witness ==
    /\ Returned("check_pump_fun") /\ IsPumpFunToken(call.pump_fun_info)
    /\ "dev_holdings_percentage" \in DOMAIN call.pump_fun_info
    /\ call.pump_fun_info.dev_holdings_percentage = 20
    /\ NotMigrated(call.pump_fun_info)
    /\ NoteIs(10, "medium")

\* the major DEXs that occur as the dex_id of a pair, whatever the case
MajorDexsOf(pairs) ==
    {d \in {S_raydium, S_orca, S_jupiter, S_meteora} :
        \E i \in 1..Len(pairs) :
            /\ "dex_id" \in DOMAIN pairs[i] /\ pairs[i].dex_id # NoneStr
            /\ StrLower(pairs[i].dex_id) = d}

\* C17: check_listings returns 20 and medium for no pairs; otherwise, k being
\* the number of distinct major DEXs (raydium, orca, jupiter, meteora) among
\* the dex_id of the pairs compared without case, it returns 10 and medium
\* for k = 0, 5 and medium for k = 1, and 0, low and 'Good DEX presence' for
\* k >= 2.
C17_ListingsScore ==
    pc = "done" /\ call.fn = "check_listings"
    => /\ ~ret.raised
       /\ IF call.pairs = <<>> THEN NoteIs(20, "medium")
          ELSE IF Cardinality(MajorDexsOf(call.pairs)) = 0 THEN NoteIs(10, "medium")
          ELSE IF Cardinality(MajorDexsOf(call.pairs)) = 1 THEN NoteIs(5, "medium")
          ELSE /\ NoteIs(0, "low")
               /\ ret.value.message = <<"Good DEX presence">>

\* the risk level of the data in lower case, NoneStr when it is None and the
\* empty string when there is none
LevelOf(data) ==
    IF "risk_level" \notin DOMAIN data THEN <<>>
    ELSE IF data.risk_level = NoneStr THEN NoneStr
    ELSE StrLower(data.risk_level)

\* C18: check_rugcheck_override returns 20 and high for the risk level 'high',
\* 10 and medium for 'medium', the level compared without case, 0 and low for
\* any other level, and 0, low and 'RugCheck data not available' without data.
C18_RugCheckNote ==
    pc = "done" /\ call.fn = "check_rugcheck_override"
    => /\ ~ret.raised
       /\ IF ~TruthyDict(call.rugcheck_data)
          THEN /\ NoteIs(0, "low")
               /\ ret.value.message = <<"RugCheck data not available">>
          ELSE IF LevelOf(call.rugcheck_data) = S_high THEN NoteIs(20, "high")
          ELSE IF LevelOf(call.rugcheck_data) = S_medium THEN NoteIs(10, "medium")
          ELSE NoteIs(0, "low")

\* the scores of the notes of the call
NoteScores == {call.notes[i].score : i \in 1..Len(call.notes)}

\* C19: for a list of notes that is not empty, calculate_overall_score returns
\* a value from the smallest to the largest score of the notes, and for a
\* single note exactly the score of that note, whatever its rule name.
C19_MeanWithinScores ==
    Returned("calculate_overall_score") /\ call.notes # <<>>
    => /\ \E lo \in NoteScores : lo <= ret.value
       /\ \E hi \in NoteScores : ret.value <= hi
       /\ Len(call.notes) = 1 => ret.value = call.notes[1].score

\* a fully populated healthy token: both authorities renounced, $50,000 or
\* more of liquidity locked at 80%, selling possible without taxes or honeypot
\* flag, holders of equal balance, pairs on three major DEXs, no RugCheck data
HealthyToken(a) ==
    /\ TruthyDict(a.token_meta)
    /\ Renounced(a.token_meta, "is_mint_authority_renounced")
    /\ Renounced(a.token_meta, "is_freeze_authority_renounced")
    /\ Cardinality(MajorDexsOf(a.pairs)) >= 3
    /\ MaxUsdLiquidity(a.pairs) >= 50000
    /\ TruthyDict(a.liquidity_lock)
    /\ "is_locked" \in DOMAIN a.liquidity_lock /\ a.liquidity_lock.is_locked = PyTrue
    /\ NumberAbove(a.liquidity_lock, "locked_percentage", 79)
    /\ TruthyDict(a.trading_info)
    /\ TradeabilityPenalties(a.trading_info) = 0
    /\ a.holders # <<>> /\ a.holders # NoneList
    /\ \A i, j \in 1..Len(a.holders) : BalanceOf(a.holders[i]) = BalanceOf(a.holders[j])
    /\ ~TruthyDict(a.rugcheck_data)

\* C20: for a fully populated healthy token assess_token_risk returns a
\* report of overall_score at most 29 and risk_level 'safe'.
C20_HealthyTokenIsSafe ==
    pc = "done" /\ call.fn = "assess_token_risk" /\ HealthyToken(call.a)
    => /\ ~ret.raised
       /\ ret.value.overall_score <= 29
       /\ ret.value.risk_level = "safe"

\* a healthy token with what the claim leaves open at its worst: pairs a day
\* old with high volume, a short lock, two holders, a Pump.fun token held by
\* its developer
C20_Witness ==
    /\ Returned("assess_token_risk") /\ HealthyToken(call.a)
    /\ Len(call.a.holders) = 2
    /\ YoungerThanADay(call.a.pairs) /\ HighVolume(call.a.pairs)
    /\ IsPumpFunToken(call.a.pump_fun_info)
    /\ ret.value.notes[4].score = 25 /\ ret.value.notes[6].score = 30
    /\ ret.value.overall_score \in 1..29

(***************************************************************************)
(* The report against the arguments of the call.                           *)
(***************************************************************************)
DeclaredFields(model) == RequiredFields[model] \cup DOMAIN Defaults[model]

\* every declared field the dict holds has the same value on the snapshot
SameFields(snapshot, d, model) ==
    /\ DOMAIN snapshot = DeclaredFields(model)
    /\ \A k \in DOMAIN d \cap DeclaredFields(model) : snapshot[k] = d[k]

SameOptional(snapshot, d, model) ==
    IF d = PyNone THEN snapshot = PyNone
    ELSE snapshot # PyNone /\ SameFields(snapshot, d, model)

SameList(snapshots, list, model) ==
    /\ Len(snapshots) = Len(list)
    /\ \A i \in 1..Len(list) : SameFields(snapshots[i], list[i], model)

CopiedVerbatim ==
    Returned("assess_token_risk") =>
        LET a == call.a
            r == ret.value
        IN  /\ r.mint_address = a.mint_address
            /\ r.data_sources_used = OrEmptyNames(a.data_sources_used)
            /\ r.warnings = OrEmptyNames(a.warnings)
            /\ SameOptional(r.token_meta, a.token_meta, "TokenMeta")
            /\ SameList(r.pairs, OrEmpty(a.pairs), "Pair")
            /\ SameList(r.top_holders, OrEmpty(a.holders), "HolderStat")
            /\ SameOptional(r.liquidity_lock, a.liquidity_lock, "LiquidityLock")
            /\ SameOptional(r.trading_info, a.trading_info, "TradingInfo")
            /\ SameOptional(r.pump_fun_info, a.pump_fun_info, "PumpFunInfo")

\* C21: a call of assess_token_risk leaves every argument as it was, and the
\* report it returns holds the caller's data: the sources used and the warnings
\* with the same elements in the same order (empty where None was given), the
\* mint address given, and snapshots of the token metadata, pairs, holders,
\* lock, trading and Pump.fun records whose fields have the values of the inputs.
C21_ArgumentsKeptAndCopied ==
    [][call.fn = "assess_token_risk" /\ pc' = "done" =>
            call' = call /\ CopiedVerbatim']_vars

\* a report returned for two sources and two warnings, a token record that
\* holds an undeclared key, a pair and two holders
C21_Witness ==
    /\ Returned("assess_token_risk")
    /\ Len(ret.value.data_sources_used) = 2
    /\ Len(ret.value.warnings) = 2
    /\ call.a.token_meta # PyNone
    /\ "holders" \in DOMAIN call.a.token_meta
    /\ "holders" \notin DOMAIN ret.value.token_meta
    /\ Len(ret.value.pairs) = 1
    /\ Len(ret.value.top_holders) = 2

(***************************************************************************)
(* The pipelines of cli.py: fetch_all_data followed by assess_token_risk   *)
(* (the web and GUI pipeline), and run_analysis (the CLI).  local holds    *)
(* what was collected from the providers and the arguments handed to the   *)
(* scorer.                                                                 *)
(***************************************************************************)
\* fetch_all_data(mint, providers)
FetchAllData ==
    /\ Calling("fetch_all_data")
    /\ \E r \in {fetch_all_data(call.mint, call.providers, call.env)} :
          /\ pc' = IF r.ret.raised THEN "done" ELSE "fetched"
          /\ ret' = r.ret
          /\ calls' = r.collected.attempted
          /\ local' = [collected |-> r.collected, args |-> r.ret]
    /\ UNCHANGED call

\* cli.py lines 544-572: assess_token_risk(data) on what was fetched
AssessFetched ==
    /\ pc = "fetched"
    /\ \E tick \in 0..MaxTick :
          \E r \in {assess_token_risk(ret.value, Now, Now + tick)} :
              /\ pc' = "done"
              /\ ret' = r.ret
              /\ calls' = calls \o r.calls
    /\ UNCHANGED <<call, local>>

\* run_analysis(mint, rpc, fast, json_output, enabled_providers), up to the
\* report it prints
RunAnalysis ==
    /\ Calling("run_analysis")
    /\ \E tick \in 0..MaxTick :
          \E r \in {run_analysis(call.mint, call.providers, call.env)} :
              \E report \in {IF r.ret.raised THEN [ret |-> r.ret, calls |-> <<>>]
                             ELSE assess_token_risk(r.ret.value, Now, Now + tick)} :
                  /\ pc' = "done"
                  /\ ret' = report.ret
                  /\ calls' = r.collected.attempted \o report.calls
                  /\ local' = [collected |-> r.collected, args |-> r.ret]
    /\ UNCHANGED call

InitPipeline ==
    /\ pc = "call" /\ call \in PipelineCalls /\ ret = <<>> /\ calls = <<>>
    /\ local = <<>>

NextPipeline == FetchAllData \/ AssessFetched \/ RunAnalysis

SpecPipeline == InitPipeline /\ [][NextPipeline]_vars

(***************************************************************************)
(* The pipelines against what the upstream requests give.                  *)
(***************************************************************************)
\* every upstream request of the provider fails
RequestsFail(name, env) ==
    IF name = "dexscreener" THEN ~env.dexscreener.success
    ELSE \A request \in DOMAIN env[name] : ~env[name][request].success

\* some upstream request of the provider succeeds
RequestSucceeds(name, env) == ~RequestsFail(name, env)

Enabled == call.providers \cap Providers

\* the notes of the rules without data, as assess_token_risk gives them
NoDataNotes ==
    assess_token_risk(
        [mint_address |-> call.mint, token_meta |-> PyNone, pairs |-> <<>>,
         holders |-> <<>>, liquidity_lock |-> PyNone, trading_info |-> PyNone,
         pump_fun_info |-> PyNone, rugcheck_data |-> PyNone,
         data_sources_used |-> <<>>, warnings |-> <<>>], Now, Now).ret.value.notes

\* fetch_all_data and then assess_token_risk have run
Assessed == pc = "done" /\ call.fn = "fetch_all_data"

\* C22: when every upstream request of every enabled provider fails,
\* fetch_all_data followed by assess_token_risk returns a report whose notes
\* are the no-data notes of the rules and whose warnings hold one warning
\* for each of the failed sources.
C22_AllSourcesFail ==
    Assessed /\ (\A name \in Enabled : RequestsFail(name, call.env))
    => /\ ~ret.raised
       /\ ret.value.notes = NoDataNotes
       /\ Len(ret.value.warnings) = Cardinality(Enabled)

\* the providers have been asked
Collected == pc # "call" /\ call.fn \in {"fetch_all_data", "run_analysis"}

\* the clients of the call: run_analysis without providers uses them all
Clients ==
    IF call.fn = "run_analysis" /\ call.providers = {} THEN Providers ELSE Enabled

Raises(name) == get_token_info(name, call.mint, call.env).raised

WarningOf(name) ==
    Labels[name] \o " failed: " \o get_token_info(name, call.mint, call.env).error

\* C23: in fetch_all_data and in run_analysis every enabled provider is asked
\* exactly once, in the order dexscreener, birdeye, rugcheck, pumpfun,
\* solana_chain, whichever of them raise; a provider that raised has the data
\* None and exactly one warning, which names it, and there is no other warning.
C23_FailureDoesNotAbort ==
    Collected =>
        /\ SelectSeq(calls, LAMBDA c : c \in Providers)
               = SelectSeq(ProviderOrder, LAMBDA name : name \in Clients)
        /\ \A name \in Clients :
              Raises(name) =>
                  /\ local.collected.tasks[name] = PyNone
                  /\ Cardinality({i \in 1..Len(local.collected.warnings) :
                                     local.collected.warnings[i] = WarningOf(name)}) = 1
        /\ Len(local.collected.warnings) = Cardinality({name \in Clients : Raises(name)})

\* dexscreener, birdeye and solana_chain raised, and all five were asked
C23_Witness ==
    /\ Collected
    /\ Clients = Providers
    /\ {name \in Clients : Raises(name)} = {"dexscreener", "birdeye", "solana_chain"}
    /\ Len(local.collected.warnings) = 3
    /\ SelectSeq(calls, LAMBDA c : c \in Providers) = ProviderOrder

\* C24: a provider is listed in data_sources_used only if it is enabled and
\* at least one of its upstream requests succeeded.
C24_ListedOnlyWithData ==
    Collected =>
        \A i \in 1..Len(local.collected.data_sources_used) :
            LET name == local.collected.data_sources_used[i]
            IN  name \in Clients /\ RequestSucceeds(name, call.env)

(***************************************************************************)
(* utils.py, validate_solana_address; sol_safety_check_web.py, lines       *)
(* 1584-1658: SolSafetyCheckerHandler.analyze_token.  The handler thread    *)
(* (main) starts the analysis thread (worker), waits for it at most 60      *)
(* seconds and answers for it if it is still alive; both threads write to   *)
(* the same connection.  pc holds the position of each thread, ret what     *)
(* the worker has computed, local the connection: the JSON responses        *)
(* written so far, whether it is still open, whether the join timed out.   *)
(***************************************************************************)
Base58 ==
    {"0", "1", "2", "3", "4", "5", "6", "7", "8", "9",
     "A", "B", "C", "D", "E", "F", "G", "H", "J", "K", "L", "M", "N", "P",
     "Q", "R", "S", "T", "U", "V", "W", "X", "Y", "Z",
     "a", "b", "c", "d", "e", "f", "g", "h", "i", "j", "k", "m", "n", "o",
     "p", "q", "r", "s", "t", "u", "v", "w", "x", "y", "z"}

validate_solana_address(address) ==
    IF address = <<>> THEN FALSE
    ELSE IF Len(address) \notin {AddressLength - 1, AddressLength} THEN FALSE
    ELSE \A i \in 1..Len(address) : address[i] \in Base58

RECURSIVE strip(_)
strip(s) ==
    IF s = <<>> THEN s
    ELSE IF Head(s) = " " THEN strip(Tail(s))
    ELSE IF s[Len(s)] = " " THEN strip(SubSeq(s, 1, Len(s) - 1))
    ELSE s

ErrorResponse(error) == [success |-> FALSE, error |-> error, results |-> PyNone]

ResultsResponse(report) ==
    [success |-> TRUE, error |-> NoneStr,
     results |-> [mint_address |-> report.mint_address,
                  overall_score |-> report.overall_score,
                  verdict |-> report.verdict,
                  risk_level |-> report.risk_level,
                  notes |-> report.notes,
                  data_sources_used |-> report.data_sources_used,
                  warnings |-> report.warnings]]

TimeoutResponse == ErrorResponse(<<"Analysis timeout - please try again">>)

\* send_json_response(data): the write reaches the client while the
\* connection is open; on a closed connection it raises and writes nothing
send_json_response(connection, data) ==
    IF connection.open
    THEN [connection EXCEPT !.responses = Append(@, data)]
    ELSE connection

SpacedMint == <<" ">> \o PlainMint \o <<" ">>
BadMint    == [i \in 1..AddressLength |-> "O"]
ShortMint  == <<"a", "b", "c">>

WebRequests ==
    {[fn |-> "analyze_token", body |-> body, tokenAddress |-> address,
      providers |-> providers, env |-> env] :
        body \in {"json", "malformed"},
        address \in {<<>>, ShortMint, BadMint, PlainMint, PumpMint, SpacedMint},
        providers \in {{}, {"dexscreener"}, {"birdeye"}, Providers},
        env \in {EnvOfAll("fails"), EnvOfAll("good"), EnvOfAll("raises")}}

\* lines 1586-1605 and 1640-1642: the request is read and validated, and the
\* analysis thread is started
AnalyzeToken ==
    /\ pc = [main |-> "call", worker |-> "idle"]
    /\ \E error \in {IF call.body = "malformed"
                        THEN <<<<"Server error: JSONDecodeError">>>>
                     ELSE IF strip(call.tokenAddress) = <<>>
                        THEN <<<<"Token address is required">>>>
                     ELSE IF ~validate_solana_address(strip(call.tokenAddress))
                        THEN <<<<"Invalid Solana address format">>>>
                     ELSE IF call.providers = {}
                        THEN <<<<"At least one data source must be selected">>>>
                     ELSE <<>>} :
          IF error # <<>>
          THEN /\ pc' = [pc EXCEPT !.main = "returned"]
               /\ local' = send_json_response(local, ErrorResponse(error[1]))
          ELSE /\ pc' = [main |-> "joining", worker |-> "started"]
               /\ local' = local
    /\ UNCHANGED <<call, ret, calls>>

\* line 1615: fetch_all_data(token_address, providers, fast_mode)
WorkerFetch ==
    /\ pc.worker = "started"
    /\ \E r \in {fetch_all_data(strip(call.tokenAddress), call.providers,
                                call.env)} :
          /\ pc' = [pc EXCEPT !.worker = IF r.ret.raised THEN "failed"
                                         ELSE "fetched"]
          /\ ret' = r.ret
          /\ calls' = r.collected.attempted
    /\ UNCHANGED <<call, local>>

\* line 1618: report = assess_token_risk(data_result)
WorkerAssess ==
    /\ pc.worker = "fetched"
    /\ \E tick \in 0..MaxTick :
          \E r \in {assess_token_risk(ret.value, Now, Now + tick)} :
              /\ pc' = [pc EXCEPT !.worker = IF r.ret.raised THEN "failed"
                                             ELSE "assessed"]
              /\ ret' = r.ret
              /\ calls' = calls \o r.calls
    /\ UNCHANGED <<call, local>>

\* lines 1621-1637: the worker writes the report, or the error it caught
WorkerRespond ==
    /\ pc.worker \in {"assessed", "failed"}
    /\ pc' = [pc EXCEPT !.worker = "responded"]
    /\ local' = send_json_response(local,
                    IF ret.raised THEN ErrorResponse(<<ret.error>>)
                    ELSE ResultsResponse(ret.value))
    /\ UNCHANGED <<call, ret, calls>>

\* lines 1633-1634: loop.close(), and the thread ends
WorkerExit ==
    /\ pc.worker = "responded"
    /\ pc' = [pc EXCEPT !.worker = "finished"]
    /\ UNCHANGED <<call, ret, calls, local>>

\* line 1645: thread.join(timeout=60) returns because the thread has ended
JoinReturns ==
    /\ pc.main = "joining" /\ pc.worker = "finished"
    /\ pc' = [pc EXCEPT !.main = "joined"]
    /\ UNCHANGED <<call, ret, calls, local>>

\* line 1645: thread.join(timeout=60) returns because 60 seconds have passed
JoinTimesOut ==
    /\ pc.main = "joining" /\ pc.worker # "finished"
    /\ pc' = [pc EXCEPT !.main = "joined"]
    /\ local' = [local EXCEPT !.timed_out = TRUE,
                              !.unfinished = pc.worker \notin {"responded"}]
    /\ UNCHANGED <<call, ret, calls>>

\* lines 1647-1648: if thread.is_alive(): the timeout error is written
CheckAlive ==
    /\ pc.main = "joined"
    /\ pc' = [pc EXCEPT !.main = "returned"]
    /\ local' = IF pc.worker # "finished"
                THEN send_json_response(local, TimeoutResponse)
                ELSE local
    /\ UNCHANGED <<call, ret, calls>>

\* the handler has returned: the server closes the connection
CloseConnection ==
    /\ pc.main = "returned" /\ local.open
    /\ local' = [local EXCEPT !.open = FALSE]
    /\ UNCHANGED <<pc, call, ret, calls>>

InitWeb ==
    /\ pc = [main |-> "call", worker |-> "idle"]
    /\ call \in WebRequests
    /\ ret = <<>> /\ calls = <<>>
    /\ local = [responses |-> <<>>, open |-> TRUE, timed_out |-> FALSE,
                unfinished |-> FALSE]

NextWeb ==
    \/ AnalyzeToken \/ WorkerFetch \/ WorkerAssess \/ WorkerRespond
    \/ WorkerExit \/ JoinReturns \/ JoinTimesOut \/ CheckAlive
    \/ CloseConnection

SpecWeb == InitWeb /\ [][NextWeb]_vars

\* C25: under every interleaving of the analysis thread and the 60-second
\* join, exactly one JSON response is written for a request (never two, and
\* one once both threads are through); if the join timed out before the
\* analysis had finished, the response of the handler is the timeout error
\* and no success response is written.
C25_ExactlyOneResponse ==
    /\ Len(local.responses) <= 1
    /\ (pc.main = "returned" /\ pc.worker \in {"idle", "finished"}
            => Len(local.responses) = 1)
    /\ (local.timed_out /\ local.unfinished
            => /\ \A i \in 1..Len(local.responses) : ~local.responses[i].success
               /\ (pc.main = "returned"
                      => \E i \in 1..Len(local.responses) :
                            local.responses[i] = TimeoutResponse))

(***************************************************************************)
(* utils.py, lines 41-101: make_http_request, one step per request and per *)
(* sleep.  calls is the log of what each request met, local the loop       *)
(* variable attempt and the waits slept so far.                            *)
(***************************************************************************)
DefaultRetries == 3
StatusOK == 200
StatusTooManyRequests == 429
StatusServerError == 500

\* what one client.request(...) can meet: a response with a status and a body
\* that is JSON or not, httpx.TimeoutException, or another exception
Met(kind, status, json) == [kind |-> kind, status |-> status, json |-> json]

HttpCalls ==
    {[fn |-> "make_http_request", retries |-> retries,
      backoff_factor |-> backoff_factor] :
        retries \in (0 - 1)..DefaultRetries, backoff_factor \in 0..2}

FlatWait(backoff_factor, attempt) == backoff_factor

\* wait_time = backoff_factor * (2 ** attempt)
WaitTime(backoff_factor, attempt) == backoff_factor * 2^attempt

InRange == Calling("make_http_request") /\ local.attempt <= call.retries

\* if attempt < retries: sleep and continue, else: return False, None, error
RetryOrFail(met, error) ==
    /\ calls' = Append(calls, met)
    /\ IF local.attempt < call.retries
       THEN /\ pc' = "sleeping"
            /\ local' = [local EXCEPT !.waits =
                            Append(@, WaitTime(call.backoff_factor,
                                               local.attempt))]
            /\ ret' = ret
       ELSE /\ pc' = "done"
            /\ ret' = Ret(Failure(<<error>>))
            /\ local' = local
    /\ UNCHANGED call

\* lines 71-72: status 200; response.json() raises on a body that is not
\* JSON, inside the try
Status200 ==
    /\ InRange
    /\ \E json \in BOOLEAN :
          IF json
          THEN /\ calls' = Append(calls, Met("response", StatusOK, TRUE))
               /\ pc' = "done"
               /\ ret' = Ret(Success([pairs |-> <<>>]))
               /\ UNCHANGED <<call, local>>
          ELSE RetryOrFail(Met("response", StatusOK, FALSE),
                           "Request failed: Expecting value")

\* lines 73-80: status 429
Status429 ==
    /\ InRange
    /\ RetryOrFail(Met("response", StatusTooManyRequests, FALSE),
                   "Rate limited after " \o ToString(call.retries) \o " retries")

\* lines 81-82: any other status
StatusOther ==
    /\ InRange
    /\ calls' = Append(calls, Met("response", StatusServerError, FALSE))
    /\ pc' = "done"
    /\ ret' = Ret(Failure(<<"HTTP " \o ToString(StatusServerError) \o ": ">>))
    /\ UNCHANGED <<call, local>>

\* lines 84-91: httpx.TimeoutException
TimeoutException ==
    /\ InRange
    /\ RetryOrFail(Met("TimeoutException", 0, FALSE),
                   "Request timeout after " \o ToString(call.retries) \o " retries")

\* lines 92-99: any other exception of the request
OtherException ==
    /\ InRange
    /\ RetryOrFail(Met("ConnectError", 0, FALSE), "Request failed: ")

\* await asyncio.sleep(wait_time); continue
Sleep ==
    /\ pc = "sleeping"
    /\ pc' = "call"
    /\ local' = [local EXCEPT !.attempt = @ + 1]
    /\ UNCHANGED <<call, ret, calls>>

\* line 101: the loop ends without a return (range(retries + 1) is empty)
MaxRetriesExceeded ==
    /\ Calling("make_http_request") /\ local.attempt > call.retries
    /\ pc' = "done"
    /\ ret' = Ret(Failure(<<"Max retries exceeded">>))
    /\ UNCHANGED <<call, calls, local>>

InitHttp ==
    /\ pc = "call" /\ call \in HttpCalls /\ ret = <<>> /\ calls = <<>>
    /\ local = [attempt |-> 0, waits |-> <<>>]

NextHttp ==
    \/ Status200 \/ Status429 \/ StatusOther \/ TimeoutException
    \/ OtherException \/ Sleep \/ MaxRetriesExceeded

SpecHttp == InitHttp /\ [][NextHttp]_vars

\* every request ends (the client has a timeout) and every sleep ends
LiveHttp == SpecHttp /\ WF_vars(NextHttp)

IsTriple(r) ==
    /\ ~r.raised
    /\ DOMAIN r.value = {"success", "data", "error"}
    /\ r.value.success \in BOOLEAN

Retryable(met) ==
    \/ met.kind # "response"
    \/ met.status = StatusTooManyRequests
    \/ met.status = StatusOK /\ ~met.json

RetryableAsStated(met) ==
    \/ met.kind # "response"
    \/ met.status = StatusTooManyRequests

Attempts == Len(calls)

RequestContract(MayRetry(_)) ==
    /\ Attempts <= IF call.retries < 0 THEN 0 ELSE call.retries + 1
    /\ call.retries = DefaultRetries => Attempts <= DefaultRetries + 1
    /\ Attempts <= Len(local.waits) + 1
    /\ Len(local.waits) <= Attempts
    /\ \A i \in 1..Attempts :
          IF i <= Len(local.waits)
          THEN /\ MayRetry(calls[i])
               /\ i <= call.retries
               /\ local.waits[i] = call.backoff_factor * 2^(i - 1)
          ELSE pc = "done"
    /\ pc = "sleeping" <=> Len(local.waits) > local.attempt
    /\ pc = "done" =>
          /\ IsTriple(ret)
          /\ Attempts > 0 =>
                LET last == calls[Attempts]
                IN  IF MayRetry(last)
                    THEN ~ret.value.success /\ Attempts = call.retries + 1
                    ELSE ret.value.success = (last.status = StatusOK)

\* C26: make_http_request always returns a (success, data, error) triple and
\* never raises; it makes at most retries + 1 requests (4 by default); a
\* further request follows only HTTP 429, a timeout, another exception or a
\* 200 whose body is not JSON (response.json() raises), only while attempts
\* remain and after a wait of backoff_factor * 2^attempt; a 200 with a JSON
\* body returns success at once, any other status returns failure at once,
\* and no wait follows the final attempt.
C26_TerminatesWithTriple == []RequestContract(Retryable) /\ <>(pc = "done")

\* the statement as given: every HTTP 200 returns success at once
C26_AsStated == []RequestContract(RetryableAsStated) /\ <>(pc = "done")

C26_Witness ==
    /\ pc = "done" /\ call.retries = DefaultRetries /\ call.backoff_factor = 1
    /\ Attempts = DefaultRetries + 1
    /\ \E i \in 1..Attempts : calls[i] = Met("response", StatusOK, FALSE)
    /\ \E i \in 1..Attempts : calls[i].status = StatusTooManyRequests
    /\ local.waits = <<1, 2, 4>>
    /\ ~ret.value.success

\* C27: the overall_score of every report assess_token_risk returns is at
\* most 50, so its risk_level is never 'high_risk' and its verdict never
\* 'High Risk / Avoid'.
C27_NeverHighRisk ==
    (call.fn = "assess_token_risk" /\ pc = "done" /\ ~ret.raised)
        => /\ ret.value.overall_score <= DefaultScore
           /\ ret.value.risk_level # "high_risk"
           /\ ret.value.verdict # "High Risk / Avoid"

\* the worst report of the model: every rule but Listings at its largest
\* score (Tradeability at 100)
C27_Witness ==
    /\ call.fn = "assess_token_risk" /\ pc = "done" /\ ~ret.raised
    /\ ret.value.overall_score >= DefaultScore - 2
    /\ \E i \in 1..Len(ret.value.notes) :
          /\ ret.value.notes[i].rule_name = RN_Tradeability
          /\ ret.value.notes[i].score = ScoreMax

\* the arguments of the call without any RugCheck data
WithoutRugCheck == [call.a EXCEPT !.rugcheck_data = PyNone]

ReportsHigh(a) ==
    /\ a.rugcheck_data # PyNone
    /\ "risk_level" \in DOMAIN a.rugcheck_data
    /\ a.rugcheck_data.risk_level # NoneStr
    /\ StrLower(a.rugcheck_data.risk_level) = S_high

\* C28: with all other inputs held fixed, RugCheck data whose risk level is
\* 'high' never gives a lower overall_score, nor a lower risk tier, than no
\* RugCheck data at all.
C28_HighNeverLowers ==
    (call.fn = "assess_token_risk" /\ pc = "done" /\ ~ret.raised
     /\ ReportsHigh(call.a))
        => \A tick \in 0..MaxTick :
              LET high == assess_token_risk(call.a, Now, Now + tick).ret
                  none == assess_token_risk(WithoutRugCheck, Now, Now + tick).ret
              IN  (high = ret /\ ~none.raised)
                      => /\ ret.value.overall_score >= none.value.overall_score
                         /\ TierOf(ret.value.overall_score)
                                >= TierOf(none.value.overall_score)

\* the RugCheck client of the call has a token, and its risk summary request
\* returns the level
SummaryLevel(level) ==
    /\ "rugcheck" \in Enabled /\ call.env.jwt_token
    /\ call.env.rugcheck.risk_summary = Success([risk_level |-> level])

HasRugCheckNote(notes, score, severity) ==
    \E i \in 1..Len(notes) :
        /\ notes[i].rule_name = RN_RugCheck
        /\ notes[i].score = score
        /\ notes[i].severity = severity

\* C29: in fetch_all_data followed by assess_token_risk, a RugCheck risk
\* summary whose risk_level is 'high' gives a RugCheck note with score 20 and
\* severity high, and one whose risk_level is 'medium' a RugCheck note with
\* score 10 and severity medium.
C29_RugCheckLevelInPipeline ==
    (Assessed /\ ~ret.raised)
        => /\ SummaryLevel(S_high) => HasRugCheckNote(ret.value.notes, 20, "high")
           /\ SummaryLevel(S_medium) => HasRugCheckNote(ret.value.notes, 10, "medium")

\* what the claim compares of the arguments handed to assess_token_risk
HandedOver ==
    {"token_meta", "pairs", "holders", "liquidity_lock", "trading_info",
     "pump_fun_info", "rugcheck_data"}

SameArguments(cli, web) ==
    /\ cli.raised = web.raised
    /\ ~cli.raised => \A k \in HandedOver : cli.value[k] = web.value[k]

SameAssessment(report, other) ==
    /\ report.raised = other.raised
    /\ ~report.raised =>
          /\ report.value.notes = other.value.notes
          /\ report.value.overall_score = other.value.overall_score
          /\ report.value.risk_level = other.value.risk_level

\* C30: for the same provider responses, run_analysis and fetch_all_data
\* followed by assess_token_risk hand the same token metadata, pairs,
\* holders, liquidity lock, trading info, pump.fun info and RugCheck data to
\* assess_token_risk, and produce the same notes, overall_score and
\* risk_level.
C30_SamePipelines ==
    (pc = "done" /\ call.fn = "run_analysis" /\ call.providers # {})
        => LET web == fetch_all_data(call.mint, call.providers, call.env).ret
           IN  /\ SameArguments(local.args, web)
               /\ web.raised \/
                     \E tick \in 0..MaxTick :
                        SameAssessment(ret, assess_token_risk(web.value, Now,
                                                              Now + tick).ret)
====
